---- MODULE Spec2Model ----
(***************************************************************************)
(* Model of the compositing engine of JessiCa-SON (src/src/compose.py):    *)
(* Tileset.compose with its Indexing loop (sprite index allocation, sheet  *)
(* ranges) and its Merging loop (tile entry conversion, id de-duplication, *)
(* unreferenced-sprite handling, assembly of "tiles-new"), the Composing    *)
(* workers of load_and_compose_sheet, and ComposeRunner with the abort     *)
(* flag, the fail-fast log handler and the fatal ComposingException.       *)
(***************************************************************************)
EXTENDS Integers, Sequences, FiniteSets, TLC

(***************************************************************************)
(* Bounds of the model and the input universe.                             *)
(***************************************************************************)
\* number of sheet blocks of tile_info.json (self.info[1:])
MaxSheets == 2
\* number of PNG files in the tileset directory, all sheets together
MaxPngs == 3
\* largest "sprites_across" value of a sheet
MaxAcross == 2
\* number of tile entries in the JSON files, all sheets together
MaxEntries == 2
\* the same two sizes for the runs with ComposeRunner, abort and workers
RunPngs == 2
RunEntries == 1
\* the same two sizes, and the number of sheet blocks, for two runs in a row
RerunSheets == 2
RerunPngs == 2
RerunEntries == 1
\* a tileset with nested entries: sheets, PNG files, tile entries, and the
\* nested entries of one "additional_tiles" list
NestedSheets == 2
NestedPngs == 1
NestedEntries == 2
MaxNested == 2
\* a sheet directory: the depth of its tree of subdirectories, and how many
\* directories carry the ignore marker or are named in the exclusion list
WalkDepth == 2
MaxMarked == 1
MaxExcluded == 1
\* runs in one process on a tileset whose tile_info.json is edited between
\* the runs: sheets, PNG files, tile entries, the largest sprite offset, runs
SessionSheets == 2
SessionPngs == 1
SessionEntries == 1
MaxOffsetX == 1
SessionRuns == 3
\* the main window: sheets, PNG files and tile entries of the tileset, and
\* how often Compose is pressed
WindowSheets == 2
WindowPngs == 1
WindowEntries == 1
WindowRuns == 2
\* concurrent abort requests: sheets, PNG files and tile entries of the
\* tileset, and the calls of request_abort by the caller thread
AbortSheets == 2
AbortPngs == 2
AbortEntries == 1
MaxRequests == 1

\* sprite basenames (PNG stems); tile ids are drawn from the same strings
Names == {"a", "b"}

\* output file names of the sheets, by position in tile_info.json
SheetNames == <<"s1.png", "s2.png", "s3.png", "s4.png">>

(***************************************************************************)
(* JSON values.  A JSON value is a tagged record so that a string, a list, *)
(* a number and an absent field stay distinguishable.                      *)
(***************************************************************************)
None == [tag |-> "none"]
Str(s) == [tag |-> "str", s |-> s]
Num(n) == [tag |-> "num", n |-> n]
List(l) == [tag |-> "list", l |-> l]
\* a weighted random variation object {"weight": .., "sprite": ..}
Variation(sprite) == [tag |-> "var", sprite |-> sprite]

\* Python truthiness of a JSON value
Truthy(v) ==
    CASE v.tag = "none" -> FALSE
      [] v.tag = "str" -> v.s # ""
      [] v.tag = "num" -> v.n # 0
      [] v.tag = "list" -> Len(v.l) > 0
      [] OTHER -> TRUE

\* a raw or converted tile entry (a JSON object); an absent key is None
TileEntry(id, fg, bg, additional) ==
    [id |-> id, fg |-> fg, bg |-> bg, additional_tiles |-> additional]

(***************************************************************************)
(* Sequence helpers.                                                       *)
(***************************************************************************)
RECURSIVE SeqsUpTo(_, _)
SeqsUpTo(S, n) ==
    IF n = 0 THEN {<<>>}
    ELSE LET shorter == SeqsUpTo(S, n - 1)
         IN  shorter \cup {Append(s, x) : s \in {t \in shorter : Len(t) = n - 1}, x \in S}

Range(s) == {s[i] : i \in DOMAIN s}

Contains(s, x) == \E i \in DOMAIN s : s[i] = x

\* list.remove(x): delete the first occurrence of x (ValueError when absent)
RemoveFirst(s, x) ==
    LET i == CHOOSE k \in DOMAIN s : s[k] = x /\ \A j \in 1..(k - 1) : s[j] # x
    IN  SubSeq(s, 1, i - 1) \o SubSeq(s, i + 1, Len(s))

\* list_or_first: strip the container list if there is only one value
list_or_first(l) == IF Len(l) = 1 THEN l[1] ELSE List(l)

(***************************************************************************)
(* Inputs: the tileset directory.                                          *)
(***************************************************************************)
\* one sheet block of tile_info.json: "filler"/"fallback" flags (fallback
\* takes precedence) and "sprites_across"
SheetConfigs ==
    [type : {"main", "filler"}, sprites_across : 1..MaxAcross]
        \cup [type : {"fallback"}, sprites_across : {MaxAcross}]

\* the PNG stems of one sheet directory in walk order (sorted by directory,
\* then by file name: any order of stems, the same stem in two directories)
PngLists == SeqsUpTo(Names, MaxPngs)

\* the tile entries found in the JSON files: one or two ids, a single sprite
\* name or a list of names as layer, entries without id or without layers
TileEntryChoices ==
    {TileEntry(Str("a"), Str("a"), None, <<>>),
     TileEntry(Str("b"), None, Str("b"), <<>>),
     TileEntry(List(<<Str("a"), Str("b")>>), Str("a"), Str("b"), <<>>),
     TileEntry(List(<<Str("a"), Str("b")>>), List(<<Str("a"), Str("b")>>), None, <<>>),
     TileEntry(None, Str("a"), None, <<>>),
     TileEntry(Str("a"), None, None, <<>>)}

\* the tile entries of one sheet, in the order process_sheet_json loads them
EntryLists == SeqsUpTo(TileEntryChoices, MaxEntries)

\* nested entries of "additional_tiles": with or without id and layers, one
\* of them with a nested entry of its own
AdditionalChoices ==
    {TileEntry(Str("a"), Str("a"), None, <<>>),
     TileEntry(None, Str("a"), None, <<>>),
     TileEntry(Str("a"), None, None, <<>>),
     TileEntry(Str("b"), Str("a"), None, <<TileEntry(Str("a"), Str("a"), None, <<>>)>>)}

\* tile entries that carry "additional_tiles"
NestedEntryChoices ==
    {TileEntry(Str(id), Str("a"), None, additional) :
        id \in Names, additional \in SeqsUpTo(AdditionalChoices, MaxNested) \ {<<>>}}

(***************************************************************************)
(* State.                                                                  *)
(***************************************************************************)
VARIABLES
    info,                   \* Tileset.info[1:], the sheet blocks in configured order
    no_use_all,             \* flag: do not auto-fill unreferenced sprites
    obsolete_fillers,       \* flag: warn about obsolete fillers
    only_json,              \* flag: skip the Composing phase
    fail_fast,              \* flag: stop on the first warning or error
    compose_subset,         \* names of the sheets to compose, {} for all
    tree_size,              \* [pngs, entries, nested]: size of the tileset directory
    fault,                  \* what is wrong with the input: "none", "source"
                            \* (directory or tile_info.json unreadable),
                            \* "properties" (no tileset.txt with a JSON key),
                            \* "image_load", "image_size" (a PNG that cannot
                            \* be loaded, or has the wrong size)
    source_dir,             \* the sheet directories walked so far:
                            \* [png_files, tile_entries] as found on disk
    to_exit,                \* Tileset.to_exit, the abort flag
    triggered,              \* FailFastHandler.triggered
    work,                   \* the tasks of thread_pool.map, one per sheet of
                            \* sheet_configs: [at, j] position of the worker
    raised,                 \* the first exception of a worker: "none",
                            \* "StopComposing", "ComposingException"
    written,                \* names of the sheet images in the output directory
    FALLBACK,               \* the module-level FALLBACK block
    run,                    \* number of the run in this process
    previous,               \* results of the runs before, in order
    pngnum,                 \* Tileset.pngnum, the last index handed out
    pngname_to_pngnum,      \* Tileset.pngname_to_pngnum
    unreferenced_pngnames,  \* Tileset.unreferenced_pngnames["main"|"filler"]
    processed_ids,          \* Tileset.processed_ids
    sheets,                 \* the Tilesheet objects, in construction order
    offset,                 \* local "offset" of compose
    pc,                     \* position in compose
    k,                      \* position in png_files of the sheet being indexed
    m,                      \* position in sheet_configs (Merging loop)
    e,                      \* position in tile_entries of the sheet being merged
    sheet_entries,          \* local "sheet_entries" of compose
    tiles_new_dict,         \* local "tiles_new_dict": ordered <<key, sheet_conf>> pairs
    main_finished,          \* local "main_finished" of compose
    fallback_name,          \* local "fallback_name" of compose
    output_conf,            \* "tiles-new" of the written document, None before
    log,                    \* diagnostics emitted through log_and_emit
    walk,                   \* Tilesheet.walk_dirs of one sheet: the directory and the scan
    window,                 \* MainWindow: its controls, its runner, the last handler run
    caller                  \* the thread that calls request_abort: its position in the call

vars ==
    <<info, no_use_all, obsolete_fillers, only_json, fail_fast, compose_subset,
      tree_size, fault, source_dir, to_exit, triggered, work, raised, written,
      FALLBACK, run, previous, pngnum, pngname_to_pngnum,
      unreferenced_pngnames, processed_ids, sheets, offset, pc, k, m, e,
      sheet_entries, tiles_new_dict, main_finished, fallback_name, output_conf,
      log, walk, window, caller>>

\* the parameters of a run and the state of its input
inputs ==
    <<info, no_use_all, obsolete_fillers, only_json, fail_fast, compose_subset,
      tree_size, fault, walk, window, caller>>

\* the abort flag and the handler that sets it
abort_vars == <<to_exit, triggered>>

\* the Composing phase
pool_vars == <<work, raised, written>>

\* what outlives a run
session == <<FALLBACK, run, previous>>

\* a message of log_and_emit: logged and sent as compose signal
Diag(level, msg_type, arg) ==
    [level |-> level, msg_type |-> msg_type, arg |-> arg, via |-> "both"]

\* the state of a new Tileset and the locals of compose before the Indexing loop
NewTileset ==
    /\ pngnum = 0
    /\ pngname_to_pngnum = [n \in {"null_image"} |-> 0]
    /\ unreferenced_pngnames = [main |-> <<>>, filler |-> <<>>]
    /\ processed_ids = <<>>
    /\ sheets = <<>>
    /\ offset = -1
    /\ k = 0
    /\ m = 0
    /\ e = 0
    /\ sheet_entries = <<>>
    /\ tiles_new_dict = <<>>
    /\ main_finished = FALSE
    /\ fallback_name = "fallback.png"
    /\ output_conf = None
    /\ to_exit = FALSE
    /\ work = <<>>
    /\ raised = "none"

\* the directory scan is not looked at: the sheets' files are given by
\* source_dir
NoWalk == [pc |-> "none"]

\* the composer is run without the main window
NoWindow == [event |-> "none"]

\* no other thread calls request_abort
NoCaller == [pc |-> "none"]

\* a process that has not run the composer before
NewProcess ==
    /\ log = <<>>
    /\ source_dir = <<>>
    /\ written = {}
    /\ triggered = FALSE
    /\ FALLBACK = [file |-> "fallback.png", range |-> <<>>, tiles |-> <<>>]
    /\ run = 1
    /\ previous = <<>>

\* compose of a readable tileset in JSON-only mode, Tileset constructed
Init ==
    /\ info \in SeqsUpTo(SheetConfigs, MaxSheets)
    /\ no_use_all \in BOOLEAN
    /\ obsolete_fillers \in BOOLEAN
    /\ only_json = TRUE
    /\ fail_fast = FALSE
    /\ compose_subset = {}
    /\ tree_size = [pngs |-> MaxPngs, entries |-> MaxEntries, nested |-> FALSE]
    /\ fault = "none"
    /\ walk = NoWalk
    /\ window = NoWindow
    /\ caller = NoCaller
    /\ NewTileset
    /\ NewProcess
    /\ pc = "index"

(***************************************************************************)
(* The abort flag and the fail-fast handler.                               *)
(***************************************************************************)
\* the levels FailFastHandler reacts to (setLevel(logging.WARNING))
Severe == {"WARNING", "ERROR", "CRITICAL"}

\* FailFastHandler.emit would act on one of the records: the handler is
\* installed and has not triggered yet
Triggers(diags) ==
    /\ fail_fast
    /\ ~triggered
    /\ \E i \in DOMAIN diags : diags[i].level \in Severe /\ diags[i].via # "signal"

\* abort_composing: the status message of the first request
AbortRequested(flag) ==
    IF flag THEN <<>> ELSE <<Diag("INFO", "STATUS_MESSAGE", "Abort requested.")>>

\* FailFastHandler.emit: its own critical message, then request_abort
FailFastRecords == <<Diag("CRITICAL", "CRIT_GENERIC", "Fail Fast")>> \o AbortRequested(to_exit)

\* the records as they reach the log: the handler's records follow the first
\* record it reacts to
RECURSIVE WithHandler(_, _)
WithHandler(diags, i) ==
    IF i > Len(diags) THEN <<>>
    ELSE IF diags[i].level \in Severe /\ diags[i].via # "signal"
         THEN <<diags[i]>> \o FailFastRecords \o SubSeq(diags, i + 1, Len(diags))
         ELSE <<diags[i]>> \o WithHandler(diags, i + 1)

\* the records added to the log lg since the step began
NewRecords(lg) == SubSeq(lg, Len(log) + 1, Len(lg))

\* log_and_emit of the records a step added: the log and, through the
\* fail-fast handler, the abort flag
Emit(lg) ==
    LET diags == NewRecords(lg)
    IN  IF Triggers(diags)
        THEN /\ log' = log \o WithHandler(diags, 1)
             /\ triggered' = TRUE
             /\ to_exit' = TRUE
        ELSE /\ log' = lg
             /\ UNCHANGED abort_vars

\* check_abort would raise StopComposing: the flag is set, or the records the
\* step has logged so far have made the handler set it
AbortSeen(lg) == to_exit \/ Triggers(NewRecords(lg))

(***************************************************************************)
(* Indexing: step 1 of Tileset.compose.                                    *)
(***************************************************************************)
\* Tilesheet.__init__: specs.get("sprite_offset_x", 0)
SpriteOffsetX(config) ==
    IF "sprite_offset_x" \in DOMAIN config THEN config.sprite_offset_x ELSE 0

\* is_standard: the sprite size, the retracted offsets and the pixelscale of
\* a sheet are the tileset's, its offset may differ
is_standard(sheet) == sheet.offset_x = 0

\* non_standard_sheet: the size and offset keys are set in sheetconf (the
\* size and sprite_offset_y are the same for every sheet here)
non_standard_sheet(sheet, sheetconf) ==
    [sprite_offset_x |-> sheet.offset_x] @@ sheetconf

\* Tilesheet.__init__: a sheet object for configuration block i
Tilesheet(i, pngs, entries) ==
    [name |-> SheetNames[i],
     is_fallback |-> info[i].type = "fallback",
     is_filler |-> info[i].type = "filler",
     sprites_across |-> info[i].sprites_across,
     offset_x |-> SpriteOffsetX(info[i]),
     png_files |-> pngs,
     tile_entries |-> entries,
     images_loaded |-> 0,
     first_index |-> pngnum + 1,
     max_index |-> pngnum]

\* the files read so far
RECURSIVE TotalPngs(_)
TotalPngs(ss) == IF ss = <<>> THEN 0 ELSE Len(Head(ss).png_files) + TotalPngs(Tail(ss))

RECURSIVE TotalEntries(_)
TotalEntries(ss) ==
    IF ss = <<>> THEN 0 ELSE Len(Head(ss).tile_entries) + TotalEntries(Tail(ss))

\* the tile entries sheet directory i can hold: what it held when it was
\* walked before, else any list the size of the tileset directory leaves room for
TreeEntryLists(i) ==
    IF i <= Len(source_dir)
    THEN {source_dir[i].tile_entries}
    ELSE SeqsUpTo(IF tree_size.nested THEN NestedEntryChoices ELSE TileEntryChoices,
                  tree_size.entries - TotalEntries(sheets))

\* compose, loop head: construct the sheet, walk_dirs and process_sheet_json
\* (both skipped for a fallback sheet).  A directory walked in an earlier run
\* holds what it held then; process_sheet_json checks the abort flag before
\* each JSON file.
StartSheet ==
    /\ pc = "index"
    /\ Len(sheets) < Len(info)
    /\ LET i == Len(sheets) + 1
       IN  \E pngs \in PngLists, entries \in TreeEntryLists(i) :
               /\ IF i <= Len(source_dir)
                  THEN /\ pngs = source_dir[i].png_files
                       /\ entries = source_dir[i].tile_entries
                       /\ UNCHANGED source_dir
                  ELSE /\ info[i].type = "fallback" => pngs = <<>> /\ entries = <<>>
                       /\ TotalPngs(sheets) + Len(pngs) <= tree_size.pngs
                       /\ TotalEntries(sheets) + Len(entries) <= tree_size.entries
                       /\ source_dir' = Append(source_dir,
                              [png_files |-> pngs, tile_entries |-> entries])
               /\ sheets' = Append(sheets, Tilesheet(i, pngs, entries))
               /\ pc' = IF to_exit /\ entries # <<>> THEN "stopped" ELSE "png"
    /\ k' = 1
    /\ UNCHANGED <<inputs, abort_vars, pool_vars, session, pngnum, pngname_to_pngnum,
                   unreferenced_pngnames, processed_ids, offset, m, e, sheet_entries,
                   tiles_new_dict, main_finished, fallback_name, output_conf, log>>

\* a registry lookup that never finds the stem: every PNG file is registered anew
IsRegistered_NoDuplicateCheck(stem) == FALSE

\* process_png_filename: is the stem already registered
IsRegistered(stem) == stem \in DOMAIN pngname_to_pngnum

\* process_png_filename: the diagnostics for a duplicate root name
DuplicateNameDiags(sheet, stem) ==
    (IF ~sheet.is_filler
        THEN <<Diag("ERROR", "ERR_DUPLICATE_NAME", stem)>> ELSE <<>>)
    \o (IF sheet.is_filler /\ obsolete_fillers
        THEN <<Diag("WARNING", "WARN_FILLER_DUPLICATE", stem)>> ELSE <<>>)

\* process_sheet_png_filenames: one iteration, check_abort and
\* process_png_filename
ProcessPngFilename ==
    /\ pc = "png"
    /\ k <= Len(sheets[Len(sheets)].png_files)
    /\ LET sheet == sheets[Len(sheets)]
           stem == sheet.png_files[k]
           cat == IF sheet.is_filler THEN "filler" ELSE "main"
       IN  IF to_exit
           THEN /\ pc' = "stopped"
                /\ UNCHANGED <<pngnum, pngname_to_pngnum, unreferenced_pngnames, log,
                               abort_vars, k>>
           ELSE /\ IF IsRegistered(stem)
                   THEN /\ Emit(log \o DuplicateNameDiags(sheet, stem))
                        /\ UNCHANGED <<pngnum, pngname_to_pngnum, unreferenced_pngnames>>
                   ELSE /\ pngnum' = pngnum + 1
                        /\ pngname_to_pngnum' =
                               [n \in DOMAIN pngname_to_pngnum \cup {stem} |->
                                   IF n = stem THEN pngnum + 1 ELSE pngname_to_pngnum[n]]
                        /\ unreferenced_pngnames' =
                               [unreferenced_pngnames EXCEPT ![cat] = Append(@, stem)]
                        /\ UNCHANGED <<log, abort_vars>>
                /\ k' = k + 1
                /\ UNCHANGED pc
    /\ UNCHANGED <<inputs, source_dir, pool_vars, session, processed_ids, sheets, offset,
                   m, e, sheet_entries, tiles_new_dict, main_finished, fallback_name,
                   output_conf>>

\* compose: empty cells in the last row of the sheet
RowPadding(len, across) ==
    across - (IF len % across # 0 THEN len % across ELSE across)

\* load_and_compose_sheet, compose: the sheet is in the compose subset (an
\* empty subset stands for all sheets)
InSubset(name) == compose_subset = {} \/ name \in compose_subset

\* an Indexing that pads the index only for the sheets of the compose subset
PaddedPngnum_SubsetOnly(sheet) ==
    IF InSubset(sheet.name)
    THEN pngnum + RowPadding(Len(sheet.png_files), sheet.sprites_across) + offset
    ELSE pngnum

\* compose, loop tail: self.pngnum += diff + offset, whether or not the sheet
\* is in the compose subset (the subset only selects the entries of
\* actual_pngnums, the progress bars' totals)
PaddedPngnum(sheet) ==
    pngnum + RowPadding(Len(sheet.png_files), sheet.sprites_across) + offset

\* compose, loop tail: pad the index to a full row and fix the sheet's range
FinishSheet ==
    /\ pc = "png"
    /\ k > Len(sheets[Len(sheets)].png_files)
    /\ LET sheet == sheets[Len(sheets)]
       IN  /\ pngnum' = PaddedPngnum(sheet)
           /\ sheets' = [sheets EXCEPT ![Len(sheets)].max_index = PaddedPngnum(sheet)]
    /\ offset' = 0
    /\ pc' = "index"
    /\ UNCHANGED <<inputs, source_dir, abort_vars, pool_vars, session,
                   pngname_to_pngnum, unreferenced_pngnames, processed_ids,
                   k, m, e, sheet_entries, tiles_new_dict, main_finished,
                   fallback_name, output_conf, log>>

(***************************************************************************)
(* Tile entry conversion (class TileEntry).  The conversion state cs is     *)
(* the part of the Tileset the conversion reads and writes:                *)
(* [unref: unreferenced_pngnames, ids: processed_ids, log: diagnostics].   *)
(***************************************************************************)
\* pngname_to_pngnum.get(sprite_name, 0)
SpriteIndex(sprite_name) ==
    IF sprite_name \in DOMAIN pngname_to_pngnum THEN pngname_to_pngnum[sprite_name] ELSE 0

\* append_sprite_index: the unreferenced list the found sprite is removed from
ReferencedCategory(is_filler) == IF is_filler THEN "filler" ELSE "main"

\* append_sprite_index: [out: the list appended to, ok: the return value, cs]
AppendSpriteIndex(is_filler, sprite_name, out, cs) ==
    IF sprite_name.tag = "str" /\ sprite_name.s # ""
    THEN LET sprite_index == SpriteIndex(sprite_name.s)
             cat == ReferencedCategory(is_filler)
         IN  IF sprite_index # 0
             THEN [out |-> Append(out, Num(sprite_index)),
                   ok |-> TRUE,
                   cs |-> [cs EXCEPT !.unref[cat] =
                              IF Contains(@, sprite_name.s)
                              THEN RemoveFirst(@, sprite_name.s) ELSE @]]
             ELSE [out |-> out,
                   ok |-> FALSE,
                   cs |-> [cs EXCEPT !.log =
                              Append(@, Diag("ERROR", "ERR_PNG_NOT_FOUND", sprite_name.s))]]
    ELSE [out |-> out, ok |-> FALSE, cs |-> cs]

\* the loop of convert_random_variations over a list of sprite names
RECURSIVE AppendVariations(_, _, _, _, _, _)
AppendVariations(is_filler, sprite_names, i, out, valid, cs) ==
    IF i > Len(sprite_names)
    THEN [out |-> out, ok |-> valid, cs |-> cs]
    ELSE LET r == AppendSpriteIndex(is_filler, sprite_names[i], out, cs)
         IN  AppendVariations(is_filler, sprite_names, i + 1, r.out, valid \/ r.ok, r.cs)

\* convert_random_variations: [out: converted variations, ok: valid, cs]
ConvertRandomVariations(is_filler, sprite_names, cs) ==
    IF sprite_names.tag = "list"
    THEN AppendVariations(is_filler, sprite_names.l, 1, <<>>, FALSE, cs)
    ELSE AppendSpriteIndex(is_filler, sprite_names, <<>>, cs)

\* the loop of convert_entry_layer over the parts of a list layer
RECURSIVE ConvertLayerParts(_, _, _, _, _)
ConvertLayerParts(is_filler, parts, i, out, cs) ==
    IF i > Len(parts)
    THEN [out |-> out, cs |-> cs]
    ELSE IF parts[i].tag = "var"
         THEN LET v == ConvertRandomVariations(is_filler, parts[i].sprite, cs)
              IN  ConvertLayerParts(
                      is_filler, parts, i + 1,
                      IF v.ok THEN Append(out, Variation(list_or_first(v.out))) ELSE out,
                      v.cs)
         ELSE LET r == AppendSpriteIndex(is_filler, parts[i], out, cs)
              IN  ConvertLayerParts(is_filler, parts, i + 1, r.out, r.cs)

\* convert_entry_layer: [out: list of converted parts, cs]
ConvertEntryLayer(is_filler, entry_layer, cs) ==
    IF entry_layer.tag = "list"
    THEN ConvertLayerParts(is_filler, entry_layer.l, 1, <<>>, cs)
    ELSE LET r == AppendSpriteIndex(is_filler, entry_layer, <<>>, cs)
         IN  [out |-> r.out, cs |-> r.cs]

\* convert: the field value of a layer after "Convert fg value"/"Convert bg value"
ConvertedLayer(is_filler, layer, cs) ==
    IF Truthy(layer)
    THEN LET r == ConvertEntryLayer(is_filler, layer, cs)
         IN  [value |-> list_or_first(r.out), cs |-> r.cs]
    ELSE [value |-> None, cs |-> cs]

\* convert: the diagnostic for an id that is already in processed_ids
DuplicateIdDiags(is_filler, full_id) ==
    IF is_filler
    THEN IF obsolete_fillers
         THEN <<Diag("WARNING", "WARN_FILLER_SKIP", full_id)>> ELSE <<>>
    ELSE <<Diag("ERROR", "ERR_DUPLICATE_ID", full_id)>>

\* a loop over entry_ids that records every id without the membership test
RemoveDuplicateIds_RecordAll(is_filler, prefix, entry_ids, i, cs) ==
    [entry_ids |-> entry_ids,
     cs |-> [cs EXCEPT !.ids = @ \o [j \in DOMAIN entry_ids |-> prefix \o entry_ids[j].s]]]

\* convert, "Remember processed IDs and remove duplicates": the for loop over
\* entry_ids; i is the position of the list iterator, which advances by one
\* per iteration whether or not entry_ids.remove shortened the list
RECURSIVE RemoveDuplicateIds(_, _, _, _, _)
RemoveDuplicateIds(is_filler, prefix, entry_ids, i, cs) ==
    IF i > Len(entry_ids)
    THEN [entry_ids |-> entry_ids, cs |-> cs]
    ELSE LET entry_id == entry_ids[i]
             full_id == prefix \o entry_id.s
         IN  IF ~Contains(cs.ids, full_id)
             THEN RemoveDuplicateIds(is_filler, prefix, entry_ids, i + 1,
                      [cs EXCEPT !.ids = Append(@, full_id)])
             ELSE RemoveDuplicateIds(is_filler, prefix,
                      RemoveFirst(entry_ids, entry_id), i + 1,
                      [cs EXCEPT !.log = @ \o DuplicateIdDiags(is_filler, full_id)])

\* convert: entry_ids as a list ("Make sure entry_ids is a list")
IdList(id) == IF id.tag = "list" THEN id.l ELSE <<id>>

\* a nested call without prefix: nested ids are recorded as they are written
NestedPrefix_None(entry_ids) == ""

\* convert, "recursive part": the prefix handed to the nested entries,
\* f"{entry_ids[0]}_"
NestedPrefix(entry_ids) == entry_ids[1].s \o "_"

\* a validation that asks for an id only
IsEmptyEntry_IdOnly(entry) == ~Truthy(entry.id)

\* convert: `not entry_ids or (not fg_layer and not bg_layer)`
IsEmptyEntry(entry) == ~Truthy(entry.id) \/ (~Truthy(entry.fg) /\ ~Truthy(entry.bg))

\* convert: [entry: the entry object after the call (converted in place),
\*           ret: TRUE when the entry is returned, FALSE when None is, cs]
RECURSIVE Convert(_, _, _, _)
RECURSIVE ConvertAdditional(_, _, _, _, _)
ConvertAdditional(is_filler, additional_entries, i, prefix, cs) ==
    IF i > Len(additional_entries)
    THEN [entries |-> additional_entries, cs |-> cs]
    ELSE LET r == Convert(is_filler, additional_entries[i], prefix, cs)
         IN  ConvertAdditional(is_filler,
                 [additional_entries EXCEPT ![i] = r.entry], i + 1, prefix, r.cs)

Convert(is_filler, entry, prefix, cs) ==
    IF IsEmptyEntry(entry)
    THEN [entry |-> entry,
          ret |-> FALSE,
          cs |-> [cs EXCEPT !.log = Append(@, Diag("WARNING", "WARN_EMPTY_ENTRY", prefix))]]
    ELSE LET entry_ids == IdList(entry.id)
             fg == ConvertedLayer(is_filler, entry.fg, cs)
             bg == ConvertedLayer(is_filler, entry.bg, fg.cs)
             add == ConvertAdditional(is_filler, entry.additional_tiles, 1,
                                      NestedPrefix(entry_ids), bg.cs)
             dedup == RemoveDuplicateIds(is_filler, prefix, entry_ids, 1, add.cs)
             converted == [fg |-> fg.value, bg |-> bg.value,
                           additional_tiles |-> add.entries]
         IN  IF Len(dedup.entry_ids) > 0
             THEN [entry |-> converted @@ [id |-> list_or_first(dedup.entry_ids)],
                   ret |-> TRUE,
                   cs |-> dedup.cs]
             ELSE [entry |-> converted @@
                       [id |-> IF entry.id.tag = "list" THEN List(<<>>) ELSE entry.id],
                   ret |-> FALSE,
                   cs |-> dedup.cs]

(***************************************************************************)
(* Merging: step 2 and 3 of Tileset.compose.                               *)
(***************************************************************************)
\* the positions in "sheets" of the sheets of one type, in configured order
RECURSIVE SheetsOfType(_, _)
SheetsOfType(type, i) ==
    IF i > Len(sheets) THEN <<>>
    ELSE LET t == IF sheets[i].is_filler THEN "filler"
                  ELSE IF sheets[i].is_fallback THEN "fallback" ELSE "main"
         IN  (IF t = type THEN <<i>> ELSE <<>>) \o SheetsOfType(type, i + 1)

\* the sheets merged in their configured order, fillers among the main sheets
sheet_configs_AsConfigured == [i \in 1..Len(sheets) |-> i]

\* compose: sheet_configs, "Combine config data in the correct order"
sheet_configs ==
    SheetsOfType("main", 1) \o SheetsOfType("filler", 1) \o SheetsOfType("fallback", 1)

\* a loop that warns about every unused sprite, a processed id or not
UnreferencedDiags_WarnOnly(pngnames, i, ms) ==
    [ms EXCEPT !.log = @ \o [j \in DOMAIN pngnames |->
                                 Diag("WARNING", "WARN_SPRITE_UNREF", pngnames[j])]]

\* handle_unreferenced_sprites, no_use_all: the loop over the unused sprites,
\* check_abort and one diagnostic each; ms as in CreateTileEntriesForUnused
RECURSIVE UnreferencedDiags(_, _, _)
UnreferencedDiags(pngnames, i, ms) ==
    IF i > Len(pngnames) THEN ms
    ELSE IF AbortSeen(ms.log) THEN [ms EXCEPT !.stopped = TRUE]
    ELSE UnreferencedDiags(pngnames, i + 1,
             [ms EXCEPT !.log = Append(@,
                 IF Contains(ms.ids, pngnames[i])
                 THEN Diag("ERROR", "ERR_NOT_USED", pngnames[i])
                 ELSE Diag("WARNING", "WARN_SPRITE_UNREF", pngnames[i]))])

\* handle_unreferenced_sprites: [unused: the list returned, ms]
HandleUnreferencedSprites(sheet_type, ms) ==
    IF no_use_all
    THEN [unused |-> <<>>,
          ms |-> UnreferencedDiags(unreferenced_pngnames[sheet_type], 1, ms)]
    ELSE [unused |-> unreferenced_pngnames[sheet_type], ms |-> ms]

\* tiles_new_dict[key] = sheet_conf: a known key keeps its position
DictSet(dict, key, sheet_conf) ==
    IF \E i \in DOMAIN dict : dict[i].key = key
    THEN [i \in DOMAIN dict |->
             IF dict[i].key = key THEN [key |-> key, conf |-> sheet_conf] ELSE dict[i]]
    ELSE Append(dict, [key |-> key, conf |-> sheet_conf])

\* create_tile_entries_for_unused, inner loop: the position in tiles_new_dict of
\* the first block with sheet_min_index < unused_num <= sheet_max_index, 0 if none
RECURSIVE FindSheetData(_, _, _, _)
FindSheetData(dict, i, sheet_min_index, unused_num) ==
    IF i > Len(dict) THEN 0
    ELSE IF sheet_min_index < unused_num /\ unused_num <= dict[i].key THEN i
         ELSE FindSheetData(dict, i + 1, dict[i].key, unused_num)

\* create_tile_entries_for_unused: the diagnostics for an unused sprite whose
\* name is a processed id
NotMentionedDiags(unused_png, fillers) ==
    (IF ~fillers THEN <<Diag("WARNING", "WARN_NOT_MENTIONED", unused_png)>> ELSE <<>>)
    \o (IF fillers /\ obsolete_fillers
        THEN <<Diag("WARNING", "WARN_FILLER_UNUSED", unused_png)>> ELSE <<>>)

\* create_tile_entries_for_unused: the loop over "unused", check_abort first;
\* ms = [dict: tiles_new_dict, ids: processed_ids, log: diagnostics,
\*       stopped: check_abort has raised StopComposing]
RECURSIVE CreateTileEntriesForUnused(_, _, _, _)
CreateTileEntriesForUnused(unused, i, fillers, ms) ==
    IF i > Len(unused) THEN ms
    ELSE IF AbortSeen(ms.log) THEN [ms EXCEPT !.stopped = TRUE]
    ELSE LET unused_png == unused[i]
         IN  IF Contains(ms.ids, unused_png)
             THEN CreateTileEntriesForUnused(unused, i + 1, fillers,
                      [ms EXCEPT !.log = @ \o NotMentionedDiags(unused_png, fillers)])
             ELSE LET unused_num == pngname_to_pngnum[unused_png]
                      b == FindSheetData(ms.dict, 1, 0, unused_num)
                  IN  IF b = 0
                      THEN CreateTileEntriesForUnused(unused, i + 1, fillers, ms)
                      ELSE CreateTileEntriesForUnused(unused, i + 1, fillers,
                               [ms EXCEPT
                                   !.dict[b].conf.tiles =
                                       Append(@, [id |-> Str(unused_png),
                                                  fg |-> Num(unused_num)]),
                                   !.ids = Append(@, unused_png)])

\* compose: create_tile_entries_for_unused(handle_unreferenced_sprites(t), fillers)
HandleAndCreate(sheet_type, fillers, ms) ==
    LET h == HandleUnreferencedSprites(sheet_type, ms)
    IN  IF h.ms.stopped THEN h.ms
        ELSE CreateTileEntriesForUnused(h.unused, 1, fillers, h.ms)

\* compose, lines 440-452 and 495: the end of the Indexing loop
BeginMerging ==
    /\ pc = "index"
    /\ Len(sheets) = Len(info)
    /\ pc' = "merge"
    /\ m' = 1
    /\ tiles_new_dict' = <<>>
    /\ main_finished' = FALSE
    /\ UNCHANGED <<inputs, source_dir, abort_vars, pool_vars, session, pngnum,
                   pngname_to_pngnum, unreferenced_pngnames,
                   processed_ids, sheets, offset, k, e, sheet_entries, fallback_name,
                   output_conf, log>>

\* compose, Merging loop head: check_abort; the fallback sheet is skipped; the
\* first filler sheet triggers the handling of the unreferenced main sprites
MergeSheet ==
    /\ pc = "merge"
    /\ m <= Len(sheet_configs)
    /\ LET sheet == sheets[sheet_configs[m]]
           ms == [dict |-> tiles_new_dict, ids |-> processed_ids, log |-> log,
                  stopped |-> FALSE]
       IN  IF to_exit
           THEN /\ pc' = "stopped"
                /\ UNCHANGED <<m, e, sheet_entries, tiles_new_dict, processed_ids,
                               main_finished, fallback_name, FALLBACK, log, abort_vars>>
           ELSE IF sheet.is_fallback
           THEN /\ fallback_name' = sheet.name
                /\ FALLBACK' = IF is_standard(sheet) THEN FALLBACK
                               ELSE non_standard_sheet(sheet, FALLBACK)
                /\ m' = m + 1
                /\ UNCHANGED <<pc, e, sheet_entries, tiles_new_dict, processed_ids,
                               main_finished, log, abort_vars>>
           ELSE IF sheet.is_filler /\ ~main_finished
           THEN LET r == HandleAndCreate("main", TRUE, ms)
                IN  /\ tiles_new_dict' = r.dict
                    /\ processed_ids' = r.ids
                    /\ Emit(r.log)
                    /\ IF r.stopped
                       THEN /\ pc' = "stopped"
                            /\ UNCHANGED <<main_finished, sheet_entries, e>>
                       ELSE /\ main_finished' = TRUE
                            /\ sheet_entries' = <<>>
                            /\ pc' = "convert"
                            /\ e' = 1
                    /\ UNCHANGED <<m, fallback_name, FALLBACK>>
           ELSE /\ sheet_entries' = <<>>
                /\ pc' = "convert"
                /\ e' = 1
                /\ UNCHANGED <<tiles_new_dict, processed_ids, log, abort_vars,
                               main_finished, m, fallback_name, FALLBACK>>
    /\ UNCHANGED <<inputs, source_dir, pool_vars, run, previous, pngnum,
                   pngname_to_pngnum, unreferenced_pngnames, sheets, offset, k,
                   output_conf>>

\* compose, inner Merging loop: tile_entry.convert() for one tile entry
ConvertTileEntry ==
    /\ pc = "convert"
    /\ e <= Len(sheets[sheet_configs[m]].tile_entries)
    /\ LET s == sheet_configs[m]
           sheet == sheets[s]
           r == Convert(sheet.is_filler, sheet.tile_entries[e], "",
                        [unref |-> unreferenced_pngnames, ids |-> processed_ids,
                         log |-> log])
       IN  /\ sheets' = [sheets EXCEPT ![s].tile_entries[e] = r.entry]
           /\ sheet_entries' = IF r.ret THEN Append(sheet_entries, r.entry)
                               ELSE sheet_entries
           /\ unreferenced_pngnames' = r.cs.unref
           /\ processed_ids' = r.cs.ids
           /\ Emit(r.cs.log)
    /\ e' = e + 1
    /\ UNCHANGED <<inputs, source_dir, pool_vars, session, pngnum, pngname_to_pngnum,
                   offset, pc, k, m,
                   tiles_new_dict, main_finished, fallback_name, output_conf>>

\* compose: the sheet's block {"file", "//": range, "tiles"}
SheetConf(sheet, entries) ==
    LET sheet_conf == [file |-> sheet.name,
                       range |-> <<sheet.first_index, sheet.max_index>>]
    IN  [tiles |-> entries]
            @@ (IF is_standard(sheet) THEN sheet_conf
                ELSE non_standard_sheet(sheet, sheet_conf))

\* compose, Merging loop tail: tiles_new_dict[sheet.max_index] = sheet_conf
StoreSheetConf ==
    /\ pc = "convert"
    /\ e > Len(sheets[sheet_configs[m]].tile_entries)
    /\ LET sheet == sheets[sheet_configs[m]]
       IN  tiles_new_dict' =
               DictSet(tiles_new_dict, sheet.max_index, SheetConf(sheet, sheet_entries))
    /\ m' = m + 1
    /\ pc' = "merge"
    /\ UNCHANGED <<inputs, source_dir, abort_vars, pool_vars, session, pngnum,
                   pngname_to_pngnum, unreferenced_pngnames,
                   processed_ids, sheets, offset, k, e, sheet_entries, main_finished,
                   fallback_name, output_conf, log>>

\* compose, after the Merging loop: the remaining unreferenced sprites, then
\* "Finalize tiles-new config" and write_to_json
FinalizeConfig ==
    /\ pc = "merge"
    /\ m > Len(sheet_configs)
    /\ LET ms0 == [dict |-> tiles_new_dict, ids |-> processed_ids, log |-> log,
                   stopped |-> FALSE]
           ms1 == IF ~main_finished THEN HandleAndCreate("main", FALSE, ms0) ELSE ms0
           ms2 == IF ms1.stopped THEN ms1 ELSE HandleAndCreate("filler", TRUE, ms1)
       IN  /\ tiles_new_dict' = ms2.dict
           /\ processed_ids' = ms2.ids
           /\ Emit(ms2.log)
           /\ IF ms2.stopped
              THEN /\ pc' = "stopped"
                   /\ UNCHANGED <<FALLBACK, output_conf>>
              ELSE /\ FALLBACK' = [FALLBACK EXCEPT !.file = fallback_name]
                   /\ output_conf' =
                          List([i \in DOMAIN ms2.dict |-> ms2.dict[i].conf]
                               \o <<FALLBACK'>>)
                   /\ pc' = "written"
    /\ UNCHANGED <<inputs, source_dir, pool_vars, run, previous, pngnum,
                   pngname_to_pngnum, unreferenced_pngnames, sheets,
                   offset, k, m, e, sheet_entries, main_finished, fallback_name>>

\* a run that ignores the only_json flag
OnlyJson_Ignored == FALSE

\* compose: the Composing phase is skipped in JSON-only mode
OnlyJson == only_json

\* a task of thread_pool.map has returned or raised
Ended(w) == work[w] \in {"returned", "raised"}

\* compose, last statement: the FINISHED signal "Composing done.", once
\* thread_pool.map has returned (it is not called in JSON-only mode)
Finished ==
    /\ IF OnlyJson THEN pc = "written"
       ELSE pc = "composing" /\ raised = "none" /\ \A w \in DOMAIN work : Ended(w)
    /\ log' = Append(log, Diag("INFO", "FINISHED", "Composing done."))
    /\ pc' = "done"
    /\ UNCHANGED <<inputs, source_dir, abort_vars, pool_vars, session, pngnum,
                   pngname_to_pngnum, unreferenced_pngnames,
                   processed_ids, sheets, offset, k, m, e, sheet_entries,
                   tiles_new_dict, main_finished, fallback_name, output_conf>>

(***************************************************************************)
(* Composing: the tasks of thread_pool.map, one per element of             *)
(* sheet_configs, interleaved in any order.                                *)
(***************************************************************************)
\* the exception thread_pool.map re-raises: the first one a task raised
FirstRaised(exception) == IF raised = "none" THEN exception ELSE raised

\* check_abort in a task: StopComposing ends the task
TaskStopped(w) ==
    /\ work' = [work EXCEPT ![w] = "raised"]
    /\ raised' = FirstRaised("StopComposing")

\* Tilesheet.sprites is empty: no PNG file and not the sheet that received
\* the null image
NoSprites(j) == j # 1 /\ sheets[j].png_files = <<>>

\* a compose that starts the composing tasks at the end of the Merging loop,
\* before the document is assembled and written
StartWorkers_BeforeDocument ==
    /\ pc = "merge"
    /\ m > Len(sheet_configs)
    /\ ~OnlyJson
    /\ work' = [w \in DOMAIN sheet_configs |-> "start"]
    /\ pc' = "composing"
    /\ UNCHANGED <<inputs, source_dir, abort_vars, raised, written, session, pngnum,
                   pngname_to_pngnum, unreferenced_pngnames, processed_ids, sheets,
                   offset, k, m, e, sheet_entries, tiles_new_dict, main_finished,
                   fallback_name, output_conf, log>>

\* compose: thread_pool.map(self.load_and_compose_sheet, sheet_configs)
StartWorkers ==
    /\ pc = "written"
    /\ ~OnlyJson
    /\ work' = [w \in DOMAIN sheet_configs |-> "start"]
    /\ pc' = "composing"
    /\ UNCHANGED <<inputs, source_dir, abort_vars, raised, written, session, pngnum,
                   pngname_to_pngnum, unreferenced_pngnames, processed_ids, sheets,
                   offset, k, m, e, sheet_entries, tiles_new_dict, main_finished,
                   fallback_name, output_conf, log>>

\* load_and_compose_sheet: check_abort, then the compose_subset test
WorkerStart(w) ==
    /\ pc = "composing"
    /\ work[w] = "start"
    /\ LET sheet == sheets[sheet_configs[w]]
       IN  IF to_exit THEN TaskStopped(w)
           ELSE /\ work' = [work EXCEPT ![w] =
                       IF InSubset(sheet.name)
                       THEN IF sheet.png_files = <<>> THEN "check" ELSE "load"
                       ELSE "returned"]
                /\ UNCHANGED raised
    /\ UNCHANGED <<inputs, source_dir, abort_vars, written, session, pngnum,
                   pngname_to_pngnum, unreferenced_pngnames, processed_ids, sheets,
                   offset, pc, k, m, e, sheet_entries, tiles_new_dict, main_finished,
                   fallback_name, output_conf, log>>

\* a sprite list that all sheets share: the image is appended for every sheet
AppendSprite_Shared(j) ==
    [i \in DOMAIN sheets |-> [sheets[i] EXCEPT !.images_loaded = @ + 1]]

\* load_sheet_images: self.sprites.append(image) on the task's own sheet
AppendSprite(j) == [sheets EXCEPT ![j].images_loaded = @ + 1]

\* load_sheet_images, one iteration: load_image with its check_abort; pngload
\* fails for an unloadable file, a sprite of the wrong size is reported
WorkerLoadImage(w) ==
    /\ pc = "composing"
    /\ work[w] = "load"
    /\ LET j == sheet_configs[w]
           sheet == sheets[j]
           png == sheet.png_files[sheet.images_loaded + 1]
       IN  IF to_exit
           THEN /\ TaskStopped(w)
                /\ UNCHANGED <<sheets, log, abort_vars>>
           ELSE IF OnlyJson
           THEN /\ work' = [work EXCEPT ![w] = "check"]
                /\ UNCHANGED <<raised, sheets, log, abort_vars>>
           ELSE IF fault = "image_load"
           THEN /\ work' = [work EXCEPT ![w] = "raised"]
                /\ raised' = FirstRaised("ComposingException")
                /\ UNCHANGED <<sheets, log, abort_vars>>
           ELSE /\ IF fault = "image_size"
                   THEN Emit(Append(log, Diag("ERROR", "ERR_SPRITE_SIZE", png)))
                   ELSE UNCHANGED <<log, abort_vars>>
                /\ sheets' = AppendSprite(j)
                /\ work' = [work EXCEPT ![w] =
                       IF sheet.images_loaded + 1 = Len(sheet.png_files)
                       THEN "check" ELSE "load"]
                /\ UNCHANGED raised
    /\ UNCHANGED <<inputs, source_dir, written, session, pngnum,
                   pngname_to_pngnum, unreferenced_pngnames, processed_ids,
                   offset, pc, k, m, e, sheet_entries, tiles_new_dict, main_finished,
                   fallback_name, output_conf>>

\* load_and_compose_sheet: the check_abort before write_composite_png
WorkerCheck(w) ==
    /\ pc = "composing"
    /\ work[w] = "check"
    /\ IF to_exit THEN TaskStopped(w)
       ELSE /\ work' = [work EXCEPT ![w] = "write"]
            /\ UNCHANGED raised
    /\ UNCHANGED <<inputs, source_dir, abort_vars, written, session, pngnum,
                   pngname_to_pngnum, unreferenced_pngnames, processed_ids, sheets,
                   offset, pc, k, m, e, sheet_entries, tiles_new_dict, main_finished,
                   fallback_name, output_conf, log>>

\* write_composite_png: arrayjoin and pngsave unless there is no sprite
WorkerWrite(w) ==
    /\ pc = "composing"
    /\ work[w] = "write"
    /\ written' = IF NoSprites(sheet_configs[w]) \/ OnlyJson THEN written
                  ELSE written \cup {sheets[sheet_configs[w]].name}
    /\ work' = [work EXCEPT ![w] = "returned"]
    /\ UNCHANGED <<inputs, source_dir, abort_vars, raised, session, pngnum,
                   pngname_to_pngnum, unreferenced_pngnames, processed_ids, sheets,
                   offset, pc, k, m, e, sheet_entries, tiles_new_dict, main_finished,
                   fallback_name, output_conf, log>>

\* thread_pool.map: every task has ended and one has raised; the first
\* exception is raised in compose
MapRaised ==
    /\ pc = "composing"
    /\ \A w \in DOMAIN work : Ended(w)
    /\ raised # "none"
    /\ pc' = IF raised = "StopComposing" THEN "stopped" ELSE "failed"
    /\ UNCHANGED <<inputs, source_dir, abort_vars, pool_vars, session, pngnum,
                   pngname_to_pngnum, unreferenced_pngnames, processed_ids, sheets,
                   offset, k, m, e, sheet_entries, tiles_new_dict, main_finished,
                   fallback_name, output_conf, log>>

(***************************************************************************)
(* ComposeRunner.                                                          *)
(***************************************************************************)
\* on_composing_exception: the critical report of the exception
CriticalReport == Diag("CRITICAL", "CRIT_GENERIC", "ComposingException")

\* create_tileset: Tileset() raises ComposingException when the source
\* directory cannot be read or tile_info.json is missing; on_composing_exception
\* then runs with self.tileset = None and ends in an AttributeError, in the
\* fail-fast handler (before the report is sent as a signal) or in
\* self.tileset.abort_composing
CreateTileset ==
    /\ pc = "create"
    /\ IF fault = "source"
       THEN /\ pc' = "uncreated"
            /\ IF fail_fast
               THEN /\ log' = log \o <<[CriticalReport EXCEPT !.via = "log"],
                                       Diag("CRITICAL", "CRIT_GENERIC", "Fail Fast")>>
                    /\ triggered' = TRUE
               ELSE /\ log' = Append(log, CriticalReport)
                    /\ UNCHANGED triggered
       ELSE /\ pc' = "conffile"
            /\ UNCHANGED <<log, triggered>>
    /\ UNCHANGED <<inputs, source_dir, to_exit, pool_vars, session, pngnum,
                   pngname_to_pngnum, unreferenced_pngnames, processed_ids, sheets,
                   offset, k, m, e, sheet_entries, tiles_new_dict, main_finished,
                   fallback_name, output_conf>>

\* compose, first statement: determine_conffile raises ComposingException
\* when no tileset.txt with a JSON key is found
DetermineConffile ==
    /\ pc = "conffile"
    /\ pc' = IF fault = "properties" THEN "failed" ELSE "index"
    /\ UNCHANGED <<inputs, source_dir, abort_vars, pool_vars, session, pngnum,
                   pngname_to_pngnum, unreferenced_pngnames, processed_ids, sheets,
                   offset, k, m, e, sheet_entries, tiles_new_dict, main_finished,
                   fallback_name, output_conf, log>>

\* compose is running: between its first statement and its return or raise
Composing == pc \in {"conffile", "index", "png", "merge", "convert", "written", "composing"}

\* request_abort(by_user=True) from another thread: the signal, then
\* Tileset.abort_composing
RequestAbort ==
    /\ Composing
    /\ ~to_exit
    /\ log' = log \o <<[Diag("CRITICAL", "CRIT_GENERIC", "User Request")
                           EXCEPT !.via = "signal"]>>
                  \o AbortRequested(to_exit)
    /\ to_exit' = TRUE
    /\ UNCHANGED <<inputs, source_dir, triggered, pool_vars, session, pngnum,
                   pngname_to_pngnum, unreferenced_pngnames, processed_ids, sheets,
                   offset, pc, k, m, e, sheet_entries, tiles_new_dict, main_finished,
                   fallback_name, output_conf>>

\* run, except ComposingException: on_composing_exception reports it and calls
\* abort_composing(now=True), whose check_abort raises StopComposing inside the
\* handler: the exception leaves run
OnComposingException ==
    /\ pc = "failed"
    /\ LET lg == Append(log, CriticalReport)
           trig == Triggers(NewRecords(lg))
       IN  /\ log' = (IF trig THEN log \o WithHandler(NewRecords(lg), 1) ELSE lg)
                         \o AbortRequested(to_exit \/ trig)
           /\ triggered' = (triggered \/ trig)
    /\ to_exit' = TRUE
    /\ pc' = "escaped"
    /\ UNCHANGED <<inputs, source_dir, pool_vars, session, pngnum,
                   pngname_to_pngnum, unreferenced_pngnames, processed_ids, sheets,
                   offset, k, m, e, sheet_entries, tiles_new_dict, main_finished,
                   fallback_name, output_conf>>

\* a run that swallows StopComposing without the FINISHED signal
OnStopComposing_Silent ==
    /\ pc = "stopped"
    /\ pc' = "aborted"
    /\ UNCHANGED <<inputs, source_dir, abort_vars, pool_vars, session, pngnum,
                   pngname_to_pngnum, unreferenced_pngnames, processed_ids, sheets,
                   offset, k, m, e, sheet_entries, tiles_new_dict, main_finished,
                   fallback_name, output_conf, log>>

\* run, except StopComposing: the FINISHED signal "Composing aborted."
OnStopComposing ==
    /\ pc = "stopped"
    /\ log' = Append(log, Diag("INFO", "FINISHED", "Composing aborted."))
    /\ pc' = "aborted"
    /\ UNCHANGED <<inputs, source_dir, abort_vars, pool_vars, session, pngnum,
                   pngname_to_pngnum, unreferenced_pngnames, processed_ids, sheets,
                   offset, k, m, e, sheet_entries, tiles_new_dict, main_finished,
                   fallback_name, output_conf>>

Next ==
    \/ StartSheet
    \/ ProcessPngFilename
    \/ FinishSheet
    \/ BeginMerging
    \/ MergeSheet
    \/ ConvertTileEntry
    \/ StoreSheetConf
    \/ FinalizeConfig
    \/ Finished

Spec == Init /\ [][Next]_vars

(***************************************************************************)
(* One run of ComposeRunner on a small tileset directory: create_tileset,   *)
(* then run, with the composing tasks, the flags, an abort request and the  *)
(* failures of the file system.                                            *)
(***************************************************************************)
\* what can be wrong with the input: the source directory or tile_info.json
\* unreadable, no tileset.txt with a JSON key, every PNG file unloadable,
\* every sprite of the wrong size
Faults == {"none", "source", "properties", "image_load", "image_size"}

InitRun ==
    /\ info \in SeqsUpTo({c \in SheetConfigs : c.sprites_across = MaxAcross}, MaxSheets)
    /\ no_use_all \in BOOLEAN
    /\ obsolete_fillers = FALSE
    /\ only_json \in BOOLEAN
    /\ fail_fast \in BOOLEAN
    /\ compose_subset = {}
    /\ tree_size = [pngs |-> RunPngs, entries |-> RunEntries, nested |-> FALSE]
    /\ fault \in Faults
    /\ walk = NoWalk
    /\ window = NoWindow
    /\ caller = NoCaller
    /\ NewTileset
    /\ NewProcess
    /\ pc = "create"

NextRun ==
    \/ Next
    \/ CreateTileset
    \/ DetermineConffile
    \/ RequestAbort
    \/ StartWorkers
    \/ \E w \in DOMAIN work : WorkerStart(w)
    \/ \E w \in DOMAIN work : WorkerLoadImage(w)
    \/ \E w \in DOMAIN work : WorkerCheck(w)
    \/ \E w \in DOMAIN work : WorkerWrite(w)
    \/ MapRaised
    \/ OnComposingException
    \/ OnStopComposing

SpecRun == InitRun /\ [][NextRun]_vars

(***************************************************************************)
(* Two runs in one process on the same tileset directory: the application  *)
(* starts a new ComposeRunner for every run.                               *)
(***************************************************************************)
\* the runs of one process
MaxRuns == 2

\* the compose subsets the caller chooses from
Subsets == {{}, {SheetNames[1]}, {SheetNames[2]}}

\* what a completed run has produced
Snapshot ==
    [output_conf |-> output_conf,
     pngname_to_pngnum |-> pngname_to_pngnum,
     ranges |-> [j \in DOMAIN sheets |-> <<sheets[j].first_index, sheets[j].max_index>>],
     processed_ids |-> processed_ids,
     compose_subset |-> compose_subset,
     info |-> info]

\* a second run on the Tileset object of the first: its fields are kept,
\* the locals of compose start anew
StartCompose_SameTileset ==
    /\ pc = "done"
    /\ run < MaxRuns
    /\ run' = run + 1
    /\ previous' = Append(previous, Snapshot)
    /\ compose_subset' \in Subsets
    /\ UNCHANGED <<pngnum, pngname_to_pngnum, unreferenced_pngnames, processed_ids>>
    /\ to_exit' = FALSE
    /\ sheets' = <<>>
    /\ offset' = -1
    /\ k' = 0
    /\ m' = 0
    /\ e' = 0
    /\ sheet_entries' = <<>>
    /\ tiles_new_dict' = <<>>
    /\ main_finished' = FALSE
    /\ fallback_name' = "fallback.png"
    /\ output_conf' = None
    /\ work' = <<>>
    /\ raised' = "none"
    /\ pc' = "index"
    /\ UNCHANGED <<walk, window, caller, info, no_use_all, obsolete_fillers, only_json, fail_fast, tree_size,
                   fault, source_dir, triggered, written, FALLBACK, log>>

\* main_window.start_compose after a completed run: a new ComposeRunner,
\* create_tileset() with a new Tileset, run; the directory, the written
\* images, the logger and the module's FALLBACK stay as they are
StartCompose ==
    /\ pc = "done"
    /\ run < MaxRuns
    /\ run' = run + 1
    /\ previous' = Append(previous, Snapshot)
    /\ compose_subset' \in Subsets
    /\ pngnum' = 0
    /\ pngname_to_pngnum' = [n \in {"null_image"} |-> 0]
    /\ unreferenced_pngnames' = [main |-> <<>>, filler |-> <<>>]
    /\ processed_ids' = <<>>
    /\ to_exit' = FALSE
    /\ sheets' = <<>>
    /\ offset' = -1
    /\ k' = 0
    /\ m' = 0
    /\ e' = 0
    /\ sheet_entries' = <<>>
    /\ tiles_new_dict' = <<>>
    /\ main_finished' = FALSE
    /\ fallback_name' = "fallback.png"
    /\ output_conf' = None
    /\ work' = <<>>
    /\ raised' = "none"
    /\ pc' = "index"
    /\ UNCHANGED <<walk, window, caller, info, no_use_all, obsolete_fillers, only_json, fail_fast, tree_size,
                   fault, source_dir, triggered, written, FALLBACK, log>>

InitRerun ==
    /\ info \in SeqsUpTo({c \in SheetConfigs : c.sprites_across = MaxAcross}, RerunSheets)
    /\ no_use_all \in BOOLEAN
    /\ obsolete_fillers = FALSE
    /\ only_json = FALSE
    /\ fail_fast = FALSE
    /\ compose_subset = {}
    /\ tree_size = [pngs |-> RerunPngs, entries |-> RerunEntries, nested |-> FALSE]
    /\ fault = "none"
    /\ walk = NoWalk
    /\ window = NoWindow
    /\ caller = NoCaller
    /\ NewTileset
    /\ NewProcess
    /\ pc = "index"

NextRerun ==
    \/ Next
    \/ StartWorkers
    \/ \E w \in DOMAIN work : WorkerStart(w)
    \/ \E w \in DOMAIN work : WorkerLoadImage(w)
    \/ \E w \in DOMAIN work : WorkerCheck(w)
    \/ \E w \in DOMAIN work : WorkerWrite(w)
    \/ StartCompose

SpecRerun == InitRerun /\ [][NextRerun]_vars

(***************************************************************************)
(* Several tilesets composed in one process: the tilesets share the sheet  *)
(* directories and differ in the "sprite_offset_x" of their fallback       *)
(* sheet, JSON-only mode.                                                  *)
(***************************************************************************)
\* a sheet block of tile_info.json, the fallback block with its offset
SessionConfigs ==
    {[type |-> "main", sprites_across |-> MaxAcross]}
        \cup [type : {"fallback"}, sprites_across : {MaxAcross},
              sprite_offset_x : 0..MaxOffsetX]

\* the same sheets in the same order, whatever the offsets
SameSheets(other) ==
    /\ Len(other) = Len(info)
    /\ \A i \in DOMAIN info : other[i].type = info[i].type

\* main_window.start_compose after a completed run, for a tileset with
\* another tile_info.json: a new ComposeRunner and a new Tileset; the
\* directories, the logger and the module's FALLBACK stay as they are
StartComposeOther ==
    /\ pc = "done"
    /\ run < SessionRuns
    /\ run' = run + 1
    /\ previous' = Append(previous, Snapshot)
    /\ info' \in {other \in SeqsUpTo(SessionConfigs, SessionSheets) : SameSheets(other)}
    /\ pngnum' = 0
    /\ pngname_to_pngnum' = [n \in {"null_image"} |-> 0]
    /\ unreferenced_pngnames' = [main |-> <<>>, filler |-> <<>>]
    /\ processed_ids' = <<>>
    /\ to_exit' = FALSE
    /\ sheets' = <<>>
    /\ offset' = -1
    /\ k' = 0
    /\ m' = 0
    /\ e' = 0
    /\ sheet_entries' = <<>>
    /\ tiles_new_dict' = <<>>
    /\ main_finished' = FALSE
    /\ fallback_name' = "fallback.png"
    /\ output_conf' = None
    /\ work' = <<>>
    /\ raised' = "none"
    /\ pc' = "index"
    /\ UNCHANGED <<walk, window, caller, no_use_all, obsolete_fillers, only_json, fail_fast,
                   compose_subset, tree_size, fault, source_dir, triggered, written,
                   FALLBACK, log>>

InitSession ==
    /\ info \in SeqsUpTo(SessionConfigs, SessionSheets)
    /\ no_use_all \in BOOLEAN
    /\ obsolete_fillers = FALSE
    /\ only_json = TRUE
    /\ fail_fast = FALSE
    /\ compose_subset = {}
    /\ tree_size = [pngs |-> SessionPngs, entries |-> SessionEntries, nested |-> FALSE]
    /\ fault = "none"
    /\ walk = NoWalk
    /\ window = NoWindow
    /\ caller = NoCaller
    /\ NewTileset
    /\ NewProcess
    /\ pc = "index"

NextSession ==
    \/ Next
    \/ StartComposeOther

SpecSession == InitSession /\ [][NextSession]_vars

(***************************************************************************)
(* MainWindow: Compose, Abort, closing the window and the handling of the  *)
(* finished event, around runs in JSON-only mode.  The window follows one  *)
(* run at a time: Compose is pressed when no run is going on.              *)
(***************************************************************************)
\* the finished events sent so far (ComposeSignalType.FINISHED)
FinishedSignals == Cardinality({i \in DOMAIN log : log[i].msg_type = "FINISHED"})

\* the run of the window's runner is going on: from start_compose to the
\* return of ComposeRunner.run or the exception that leaves it
RunInProgress == Composing \/ pc \in {"create", "failed", "stopped"}

\* enable_controls(enable): the control widgets, then btn_abort
enable_controls(w, enable) == [w EXCEPT !.controls = enable, !.btn_abort = ~enable]

\* abort_compose: btn_abort off, the controls on, then self.runner.exit(),
\* an attribute neither ComposeRunner nor QRunnable has (nor None): the
\* handler ends there with AttributeError
abort_compose(w) ==
    enable_controls([w EXCEPT !.btn_abort = FALSE, !.label = "Aborting..."], TRUE)

\* start_compose, by btn_compose: the controls are disabled, a new
\* ComposeRunner is made and create_tileset and run are started
PressCompose ==
    /\ window.event # "none"
    /\ ~window.closed
    /\ window.controls
    /\ ~RunInProgress
    /\ window.handled = FinishedSignals
    /\ window.started < WindowRuns
    /\ window' = [enable_controls(window, FALSE) EXCEPT
                     !.runner = TRUE, !.started = @ + 1, !.event = "start_compose"]
    /\ pngnum' = 0
    /\ pngname_to_pngnum' = [n \in {"null_image"} |-> 0]
    /\ unreferenced_pngnames' = [main |-> <<>>, filler |-> <<>>]
    /\ processed_ids' = <<>>
    /\ to_exit' = FALSE
    /\ sheets' = <<>>
    /\ offset' = -1
    /\ k' = 0
    /\ m' = 0
    /\ e' = 0
    /\ sheet_entries' = <<>>
    /\ tiles_new_dict' = <<>>
    /\ main_finished' = FALSE
    /\ fallback_name' = "fallback.png"
    /\ output_conf' = None
    /\ work' = <<>>
    /\ raised' = "none"
    /\ pc' = "create"
    /\ UNCHANGED <<walk, caller, info, no_use_all, obsolete_fillers, only_json, fail_fast,
                   compose_subset, tree_size, fault, source_dir, triggered, written,
                   session, log>>

\* The handlers run one at a time on the GUI thread: none starts while
\* start_compose is still in create_tileset.
\* abort_compose, by btn_abort
PressAbort ==
    /\ window.event # "none"
    /\ ~window.closed
    /\ pc # "create"
    /\ window.btn_abort
    /\ window' = [abort_compose(window) EXCEPT !.event = "abort_compose"]
    /\ UNCHANGED <<walk, caller, info, no_use_all, obsolete_fillers, only_json, fail_fast,
                   compose_subset, tree_size, fault, source_dir, abort_vars, pool_vars,
                   session, pngnum, pngname_to_pngnum, unreferenced_pngnames,
                   processed_ids, sheets, offset, pc, k, m, e, sheet_entries,
                   tiles_new_dict, main_finished, fallback_name, output_conf, log>>

\* closeEvent: abort_compose if there is a runner
CloseEvent ==
    /\ window.event # "none"
    /\ ~window.closed
    /\ pc # "create"
    /\ window' = [(IF window.runner THEN abort_compose(window) ELSE window) EXCEPT
                     !.closed = TRUE, !.event = "closeEvent"]
    /\ UNCHANGED <<walk, caller, info, no_use_all, obsolete_fillers, only_json, fail_fast,
                   compose_subset, tree_size, fault, source_dir, abort_vars, pool_vars,
                   session, pngnum, pngname_to_pngnum, unreferenced_pngnames,
                   processed_ids, sheets, offset, pc, k, m, e, sheet_entries,
                   tiles_new_dict, main_finished, fallback_name, output_conf, log>>

\* handle_compose_signal for a FINISHED signal: the label, then on_finished
HandleFinished ==
    /\ window.event # "none"
    /\ ~window.closed
    /\ pc # "create"
    /\ window.handled < FinishedSignals
    /\ window' = [enable_controls(window, TRUE) EXCEPT
                     !.runner = FALSE, !.handled = @ + 1, !.label = "finished",
                     !.event = "on_finished"]
    /\ UNCHANGED <<walk, caller, info, no_use_all, obsolete_fillers, only_json, fail_fast,
                   compose_subset, tree_size, fault, source_dir, abort_vars, pool_vars,
                   session, pngnum, pngname_to_pngnum, unreferenced_pngnames,
                   processed_ids, sheets, offset, pc, k, m, e, sheet_entries,
                   tiles_new_dict, main_finished, fallback_name, output_conf, log>>

\* MainWindow.__init__: no runner, the controls enabled, btn_abort disabled;
\* the flags a window can pass are no_use_all, only_json and format_json
InitWindow ==
    /\ info \in SeqsUpTo({c \in SheetConfigs : c.sprites_across = MaxAcross}, WindowSheets)
    /\ no_use_all \in BOOLEAN
    /\ obsolete_fillers = FALSE
    /\ only_json = TRUE
    /\ fail_fast = FALSE
    /\ compose_subset = {}
    /\ tree_size = [pngs |-> WindowPngs, entries |-> WindowEntries, nested |-> FALSE]
    /\ fault \in {"none", "source", "properties"}
    /\ walk = NoWalk
    /\ window = [event |-> "init", controls |-> TRUE, btn_abort |-> FALSE,
                 runner |-> FALSE, label |-> "", started |-> 0, handled |-> 0,
                 closed |-> FALSE]
    /\ caller = NoCaller
    /\ NewTileset
    /\ NewProcess
    /\ pc = "idle"

NextWindow ==
    \/ Next
    \/ CreateTileset
    \/ DetermineConffile
    \/ OnComposingException
    \/ PressCompose
    \/ PressAbort
    \/ CloseEvent
    \/ HandleFinished

SpecWindow == InitWindow /\ [][NextWindow]_vars

(***************************************************************************)
(* Abort requests from two threads.  abort_composing tests to_exit, logs   *)
(* the status and then sets the flag, without a lock: the caller thread's  *)
(* call is taken statement by statement, between the steps of the compose  *)
(* thread and of the Composing workers, whose requests come from           *)
(* FailFastHandler.emit (run under the handler's lock by logging).         *)
(***************************************************************************)
\* request_abort(by_user=True): the signal, then abort_composing up to its
\* test of to_exit
CallerRequestAbort ==
    /\ caller.pc = "idle"
    /\ caller.requests < MaxRequests
    /\ Composing
    /\ log' = Append(log, [Diag("CRITICAL", "CRIT_GENERIC", "User Request")
                              EXCEPT !.via = "signal"])
    /\ caller' = [caller EXCEPT !.pc = IF to_exit THEN "set" ELSE "log",
                                !.requests = @ + 1]
    /\ UNCHANGED <<walk, window, info, no_use_all, obsolete_fillers, only_json, fail_fast,
                   compose_subset, tree_size, fault, source_dir, abort_vars, pool_vars,
                   session, pngnum, pngname_to_pngnum, unreferenced_pngnames,
                   processed_ids, sheets, offset, pc, k, m, e, sheet_entries,
                   tiles_new_dict, main_finished, fallback_name, output_conf>>

\* abort_composing: log_and_emit of the status, the test having found the
\* flag unset
CallerLogAbort ==
    /\ caller.pc = "log"
    /\ log' = log \o AbortRequested(FALSE)
    /\ caller' = [caller EXCEPT !.pc = "set"]
    /\ UNCHANGED <<walk, window, info, no_use_all, obsolete_fillers, only_json, fail_fast,
                   compose_subset, tree_size, fault, source_dir, abort_vars, pool_vars,
                   session, pngnum, pngname_to_pngnum, unreferenced_pngnames,
                   processed_ids, sheets, offset, pc, k, m, e, sheet_entries,
                   tiles_new_dict, main_finished, fallback_name, output_conf>>

\* abort_composing: self.to_exit = True
CallerSetFlag ==
    /\ caller.pc = "set"
    /\ to_exit' = TRUE
    /\ caller' = [caller EXCEPT !.pc = "idle"]
    /\ UNCHANGED <<walk, window, info, no_use_all, obsolete_fillers, only_json, fail_fast,
                   compose_subset, tree_size, fault, source_dir, triggered, pool_vars,
                   session, pngnum, pngname_to_pngnum, unreferenced_pngnames,
                   processed_ids, sheets, offset, pc, k, m, e, sheet_entries,
                   tiles_new_dict, main_finished, fallback_name, output_conf, log>>

\* a run with the composing tasks, with or without the stop-on-first-issue
\* handler, and a thread that may call request_abort
InitAbort ==
    /\ info \in SeqsUpTo({c \in SheetConfigs : c.sprites_across = MaxAcross}, AbortSheets)
    /\ no_use_all = FALSE
    /\ obsolete_fillers = FALSE
    /\ only_json = FALSE
    /\ fail_fast \in BOOLEAN
    /\ compose_subset = {}
    /\ tree_size = [pngs |-> AbortPngs, entries |-> AbortEntries, nested |-> FALSE]
    /\ fault \in {"none", "image_size"}
    /\ walk = NoWalk
    /\ window = NoWindow
    /\ caller = [pc |-> "idle", requests |-> 0]
    /\ NewTileset
    /\ NewProcess
    /\ pc = "create"

NextAbort ==
    \/ Next
    \/ CreateTileset
    \/ DetermineConffile
    \/ StartWorkers
    \/ \E w \in DOMAIN work : WorkerStart(w)
    \/ \E w \in DOMAIN work : WorkerLoadImage(w)
    \/ \E w \in DOMAIN work : WorkerCheck(w)
    \/ \E w \in DOMAIN work : WorkerWrite(w)
    \/ MapRaised
    \/ OnStopComposing
    \/ CallerRequestAbort
    \/ CallerLogAbort
    \/ CallerSetFlag

SpecAbort == InitAbort /\ [][NextAbort]_vars

(***************************************************************************)
(* Tile entries with "additional_tiles": compose of a tileset whose tile   *)
(* entries carry nested entries, in JSON-only mode.                        *)
(***************************************************************************)
InitNested ==
    /\ info \in SeqsUpTo({c \in SheetConfigs : c.type # "fallback" /\ c.sprites_across = MaxAcross},
                         NestedSheets)
    /\ no_use_all = FALSE
    /\ obsolete_fillers = TRUE
    /\ only_json = TRUE
    /\ fail_fast = FALSE
    /\ compose_subset = {}
    /\ tree_size = [pngs |-> NestedPngs, entries |-> NestedEntries, nested |-> TRUE]
    /\ fault = "none"
    /\ walk = NoWalk
    /\ window = NoWindow
    /\ caller = NoCaller
    /\ NewTileset
    /\ NewProcess
    /\ pc = "index"

SpecNested == InitNested /\ [][Next]_vars

(***************************************************************************)
(* Tilesheet.walk_dirs: the scan of one sheet directory.  A directory is   *)
(* the sequence of names that leads to it from the sheet's source          *)
(* directory (<<>>); every directory holds one JSON and one PNG file.      *)
(***************************************************************************)
\* names of subdirectories, in sorted order
DirNames == <<"c", "d">>

DirPaths == SeqsUpTo(Range(DirNames), WalkDepth)

Parent(path) == SubSeq(path, 1, Len(path) - 1)

\* the directory trees: the source directory and any subdirectories
DirTrees ==
    {T \in SUBSET DirPaths : <<>> \in T /\ \A path \in T : path # <<>> => Parent(path) \in T}

\* the sheet is constructed and walk_dirs is about to call os.walk on
\* subdir_path; "exclude" of the sheet's specs is joined to subdir_path
WalkStatesOf(T) ==
    {[pc |-> "walk", dirs |-> T, marked |-> M, excluded |-> X,
      pending |-> <<<<>>>>, yielded |-> {}, sorted_files |-> <<>>,
      json_files |-> <<>>, png_files |-> <<>>] :
        M \in {S \in SUBSET T : Cardinality(S) <= MaxMarked},
        X \in {S \in SUBSET (DirPaths \ {<<>>}) : Cardinality(S) <= MaxExcluded}}

WalkStates == UNION {WalkStatesOf(T) : T \in DirTrees}

\* filtered_tree: the subdirectories of root that stay in dirs
KeptDirs(root) ==
    LET Kept(d) ==
            /\ Append(root, d) \in walk.dirs
            /\ Append(root, d) \notin walk.excluded
            /\ Append(root, d) \notin walk.marked
    IN  SelectSeq(DirNames, Kept)

\* os.walk, top-down: the next directory is yielded with its subdirectories
\* filtered in place, and the walk goes on into those left
OsWalk ==
    /\ walk.pc = "walk"
    /\ walk.pending # <<>>
    /\ LET root == Head(walk.pending)
           kept == KeptDirs(root)
       IN  walk' = [walk EXCEPT
                       !.yielded = @ \cup {root},
                       !.pending = [i \in DOMAIN kept |-> Append(root, kept[i])]
                                       \o Tail(walk.pending)]
    /\ UNCHANGED <<window, caller, info, no_use_all, obsolete_fillers, only_json, fail_fast,
                   compose_subset, tree_size, fault, source_dir, abort_vars, pool_vars,
                   session, pngnum, pngname_to_pngnum, unreferenced_pngnames,
                   processed_ids, sheets, offset, pc, k, m, e, sheet_entries,
                   tiles_new_dict, main_finished, fallback_name, output_conf, log>>

\* the order of the directory names as strings: a directory before its
\* subdirectories, subdirectories by name
RECURSIVE PathLess(_, _)
PathLess(p, q) ==
    IF p = <<>> THEN q # <<>>
    ELSE IF q = <<>> THEN FALSE
    ELSE IF Head(p) = Head(q) THEN PathLess(Tail(p), Tail(q))
    ELSE \E i, j \in DOMAIN DirNames : i < j /\ DirNames[i] = Head(p) /\ DirNames[j] = Head(q)

\* sorted(..., key=lambda d: d[0])
RECURSIVE Sorted(_)
Sorted(paths) ==
    IF paths = {} THEN <<>>
    ELSE LET first == CHOOSE p \in paths : \A q \in paths \ {p} : PathLess(p, q)
         IN  <<first>> \o Sorted(paths \ {first})

\* walk_dirs: the walk has ended, sorted_files is built
SortedFiles ==
    /\ walk.pc = "walk"
    /\ walk.pending = <<>>
    /\ walk' = [walk EXCEPT !.pc = "collect", !.sorted_files = Sorted(walk.yielded)]
    /\ UNCHANGED <<window, caller, info, no_use_all, obsolete_fillers, only_json, fail_fast,
                   compose_subset, tree_size, fault, source_dir, abort_vars, pool_vars,
                   session, pngnum, pngname_to_pngnum, unreferenced_pngnames,
                   processed_ids, sheets, offset, pc, k, m, e, sheet_entries,
                   tiles_new_dict, main_finished, fallback_name, output_conf, log>>

\* walk_dirs, one iteration of the loop over sorted_files: the files of the
\* directory by name, a .json to json_files and a .png to png_files
CollectFiles ==
    /\ walk.pc = "collect"
    /\ walk.sorted_files # <<>>
    /\ LET subdir_fpath == Head(walk.sorted_files)
       IN  walk' = [walk EXCEPT
                       !.json_files = Append(@, Append(subdir_fpath, "e.json")),
                       !.png_files = Append(@, Append(subdir_fpath, "p.png")),
                       !.sorted_files = Tail(@),
                       !.pc = IF Tail(walk.sorted_files) = <<>> THEN "walked" ELSE "collect"]
    /\ UNCHANGED <<window, caller, info, no_use_all, obsolete_fillers, only_json, fail_fast,
                   compose_subset, tree_size, fault, source_dir, abort_vars, pool_vars,
                   session, pngnum, pngname_to_pngnum, unreferenced_pngnames,
                   processed_ids, sheets, offset, pc, k, m, e, sheet_entries,
                   tiles_new_dict, main_finished, fallback_name, output_conf, log>>

\* compose at the head of the Indexing loop for the only sheet of the tileset
InitWalk ==
    /\ info = <<[type |-> "main", sprites_across |-> MaxAcross]>>
    /\ no_use_all = FALSE
    /\ obsolete_fillers = FALSE
    /\ only_json = TRUE
    /\ fail_fast = FALSE
    /\ compose_subset = {}
    /\ tree_size = [pngs |-> MaxPngs, entries |-> MaxEntries, nested |-> FALSE]
    /\ fault = "none"
    /\ walk \in WalkStates
    /\ window = NoWindow
    /\ caller = NoCaller
    /\ NewTileset
    /\ NewProcess
    /\ pc = "index"

NextWalk ==
    \/ OsWalk
    \/ SortedFiles
    \/ CollectFiles

SpecWalk == InitWalk /\ [][NextWalk]_vars

(***************************************************************************)
(* Vocabulary of the properties.                                           *)
(***************************************************************************)
\* the Indexing loop has ended
IndexingDone == pc \notin {"index", "png"}

\* sheet i has left the Indexing loop body: its max_index is final
RangeAssigned(i) == i < Len(sheets) \/ pc # "png"

\* the index range [first_index, max_index] of sheet i
SheetRange(i) == sheets[i].first_index .. sheets[i].max_index

\* the PNG basenames other than the placeholder
SpriteNames == DOMAIN pngname_to_pngnum \ {"null_image"}

\* the names that received their index while sheet i was registered
RegisteredBy(i) ==
    {n \in Range(sheets[i].png_files) \cap SpriteNames :
        \A j \in 1..(i - 1) : n \notin Range(sheets[j].png_files)}

\* the sheet blocks of the written document (without the fallback block)
DocBlocks ==
    IF output_conf.tag = "list"
    THEN SubSeq(output_conf.l, 1, Len(output_conf.l) - 1) ELSE <<>>

\* <<block, position>> of every top-level tile entry of the written document
DocEntryPositions ==
    UNION {{<<b, t>> : t \in DOMAIN DocBlocks[b].tiles} : b \in DOMAIN DocBlocks}

DocEntry(p) == DocBlocks[p[1]].tiles[p[2]]

\* the ids of an entry's "id" field
EntryIds(entry) ==
    CASE entry.id.tag = "str" -> {entry.id.s}
      [] entry.id.tag = "list" -> {x.s : x \in Range(entry.id.l)}
      [] OTHER -> {}

\* a layer field of an entry, None when the key is absent
EntryLayer(entry, key) == IF key \in DOMAIN entry THEN entry[key] ELSE None

\* the sprite names of one part of a raw layer
PartNames(part) ==
    CASE part.tag = "str" -> {part.s}
      [] part.tag = "var" ->
            (IF part.sprite.tag = "str" THEN {part.sprite.s}
             ELSE IF part.sprite.tag = "list"
                  THEN {x.s : x \in {y \in Range(part.sprite.l) : y.tag = "str"}}
                  ELSE {})
      [] OTHER -> {}

\* the sprite names of a raw layer
LayerNames(layer) ==
    IF layer.tag = "list" THEN UNION {PartNames(x) : x \in Range(layer.l)}
    ELSE PartNames(layer)

\* the sprite indices of one part of a converted layer
PartIndices(part) ==
    CASE part.tag = "num" -> {part.n}
      [] part.tag = "var" ->
            (IF part.sprite.tag = "num" THEN {part.sprite.n}
             ELSE IF part.sprite.tag = "list"
                  THEN {x.n : x \in {y \in Range(part.sprite.l) : y.tag = "num"}}
                  ELSE {})
      [] OTHER -> {}

\* the sprite indices of a converted layer
LayerIndices(layer) ==
    IF layer.tag = "list" THEN UNION {PartIndices(x) : x \in Range(layer.l)}
    ELSE PartIndices(layer)

\* the sprite indices in the fg and bg of an entry
EntryIndices(entry) ==
    LayerIndices(EntryLayer(entry, "fg")) \cup LayerIndices(EntryLayer(entry, "bg"))

\* an entry made by create_tile_entries_for_unused: exactly the keys id and fg
IsSynthesized(entry) == DOMAIN entry = {"id", "fg"}

\* the tile entries loaded from the JSON files, with their nested entries
RECURSIVE EntryTree(_)
EntryTree(entry) ==
    {entry} \cup UNION {EntryTree(x) : x \in Range(entry.additional_tiles)}

UserEntries ==
    UNION {EntryTree(sheets[i].tile_entries[t]) :
              <<i, t>> \in UNION {{<<i, t>> : t \in DOMAIN sheets[i].tile_entries} :
                                     i \in DOMAIN sheets}}

\* some converted tile entry carries the index of sprite n in its fg or bg
Referenced(n) == \E x \in UserEntries : pngname_to_pngnum[n] \in EntryIndices(x)

\* compose is about to convert a tile entry (the only step then enabled)
ConvertingEntry ==
    pc = "convert" /\ e <= Len(sheets[sheet_configs[m]].tile_entries)

\* the entry before and after the conversion step
RawEntry == sheets[sheet_configs[m]].tile_entries[e]
ConvertedEntry == sheets'[sheet_configs[m]].tile_entries[e]

\* convert returned the entry (it was appended to sheet_entries)
Returned == Len(sheet_entries') = Len(sheet_entries) + 1

\* the ids of the entry convert returned, none when it returned None
ResultIds == IF Returned THEN EntryIds(ConvertedEntry) ELSE {}

\* the entry passes the validation of convert
ValidEntry(entry) == Truthy(entry.id) /\ (Truthy(entry.fg) \/ Truthy(entry.bg))

\* the diagnostics emitted by the step
NewDiags == SubSeq(log', Len(log) + 1, Len(log'))

CountDiags(diags, msg_type, arg) ==
    Cardinality({i \in DOMAIN diags : diags[i].msg_type = msg_type /\ diags[i].arg = arg})

(***************************************************************************)
(* Claims.                                                                 *)
(***************************************************************************)
\* C1: after Indexing the sheets' ranges [first_index, max_index], taken in
\* configured order, are pairwise disjoint, leave no gap and cover exactly
\* 1..pngnum; index 0 is in no sheet's range and is the index of no PNG sprite.
C1_RangesPartitionIndexSpace ==
    IndexingDone =>
        /\ \A i, j \in DOMAIN sheets : i < j => SheetRange(i) \cap SheetRange(j) = {}
        /\ \A i \in DOMAIN sheets :
               sheets[i].first_index = IF i = 1 THEN 1 ELSE sheets[i - 1].max_index + 1
        /\ UNION {SheetRange(i) : i \in DOMAIN sheets} = 1..pngnum
        /\ \A i \in DOMAIN sheets : 0 \notin SheetRange(i)
        /\ \A n \in SpriteNames : pngname_to_pngnum[n] # 0

\* C2: every index handed out while the PNG names of a sheet were registered
\* lies in that sheet's range [first_index, max_index] once the range is final.
C2_MintedIndicesInSheetRange ==
    \A i \in DOMAIN sheets :
        RangeAssigned(i) =>
            \A n \in RegisteredBy(i) :
                /\ sheets[i].first_index <= pngname_to_pngnum[n]
                /\ pngname_to_pngnum[n] <= sheets[i].max_index

\* C3: in the written document no id occurs in more than one top-level tile
\* entry, user-defined and synthesized entries of all sheet blocks together.
C3_IdsUniqueInDocument ==
    \A p, q \in DocEntryPositions :
        p # q => EntryIds(DocEntry(p)) \cap EntryIds(DocEntry(q)) = {}

\* C4: converting an entry with a list of ids removes every id that was already
\* in processed_ids, leaves only ids that are in processed_ids afterwards, and
\* returns None exactly when no id of the list survives.
C4_DuplicateIdsStripped ==
    [][(ConvertingEntry /\ ValidEntry(RawEntry) /\ RawEntry.id.tag = "list") =>
          /\ \A x \in EntryIds(RawEntry) :
                 Contains(processed_ids, x) => x \notin ResultIds
          /\ \A x \in ResultIds : Contains(processed_ids', x)
          /\ Returned <=> \E x \in EntryIds(RawEntry) : ~Contains(processed_ids, x)
      ]_vars

\* C5: when every sprite name of an entry's fg (or bg) is absent from
\* pngname_to_pngnum, the converted entry has no fg (or bg) field at all.
C5_UnresolvedLayerOmitted ==
    [][(ConvertingEntry /\ ValidEntry(RawEntry)) =>
          \A key \in {"fg", "bg"} :
              (/\ Truthy(RawEntry[key])
               /\ LayerNames(RawEntry[key]) \cap DOMAIN pngname_to_pngnum = {})
              => ConvertedEntry[key] = None
      ]_vars

\* C6: no fg or bg of the written document, in converted and in synthesized
\* entries, holds the sprite index 0.
C6_NoIndexZeroInDocument ==
    \A p \in DocEntryPositions : 0 \notin EntryIndices(DocEntry(p))

\* C7: registering a PNG whose basename is already in pngname_to_pngnum leaves
\* pngname_to_pngnum, pngnum and both unreferenced lists unchanged, and no step
\* of the run changes or removes the index of a registered basename.
C7_ReRegistrationChangesNothing ==
    [][/\ (/\ pc = "png"
           /\ k <= Len(sheets[Len(sheets)].png_files)
           /\ sheets[Len(sheets)].png_files[k] \in DOMAIN pngname_to_pngnum)
          => UNCHANGED <<pngname_to_pngnum, pngnum, unreferenced_pngnames>>
       /\ \A n \in DOMAIN pngname_to_pngnum :
              /\ n \in DOMAIN pngname_to_pngnum'
              /\ pngname_to_pngnum'[n] = pngname_to_pngnum[n]
      ]_vars

\* C7, witness: a PNG with an already registered basename has just been
\* processed, in a sheet that went on to register a new name or not
C7_Witness_DuplicateProcessed ==
    /\ pc = "png"
    /\ k > 1
    /\ LET sheet == sheets[Len(sheets)]
           stem == sheet.png_files[k - 1]
       IN  \/ \E j \in 1..(k - 2) : sheet.png_files[j] = stem
           \/ \E i \in 1..(Len(sheets) - 1) : stem \in Range(sheets[i].png_files)

\* the positions of the synthesized entries {id: n, fg: index of n}
SynthesizedFor(n) ==
    {p \in DocEntryPositions :
        /\ IsSynthesized(DocEntry(p))
        /\ DocEntry(p).id = Str(n)
        /\ DocEntry(p).fg = Num(pngname_to_pngnum[n])}

\* the ids named by the tile entries of the JSON files
UserEntryIds == UNION {EntryIds(x) : x \in UserEntries}

\* C8: with auto-fill, every registered sprite that no tile entry references
\* and whose basename is no id of a tile entry has exactly one synthesized
\* entry {id: basename, fg: index} in the written document, in the block of
\* the sheet whose range contains the index.
C8_UnreferencedSpritesAutoFilled ==
    (output_conf # None /\ ~no_use_all) =>
        \A n \in SpriteNames :
            (~Referenced(n) /\ n \notin UserEntryIds) =>
                /\ Cardinality(SynthesizedFor(n)) = 1
                /\ \A p \in SynthesizedFor(n) :
                       \E i \in DOMAIN sheets :
                           /\ DocBlocks[p[1]].file = sheets[i].name
                           /\ pngname_to_pngnum[n] \in SheetRange(i)

\* C9: once the document is written, a sprite referenced by the fg or bg of a
\* converted tile entry is in neither unreferenced list and has no synthesized
\* entry.
C9_ReferencedSpritesNotUnused ==
    output_conf # None =>
        \A n \in SpriteNames :
            (/\ Referenced(n)
             /\ \A n2 \in SpriteNames \ {n} : pngname_to_pngnum[n2] # pngname_to_pngnum[n])
            => /\ ~Contains(unreferenced_pngnames["main"], n)
               /\ ~Contains(unreferenced_pngnames["filler"], n)
               /\ ~\E p \in DocEntryPositions :
                      IsSynthesized(DocEntry(p)) /\ DocEntry(p).id = Str(n)

\* the entry about to be converted is the first entry of a filler sheet to be
\* converted in the run
FirstFillerEntry ==
    /\ sheets[sheet_configs[m]].is_filler
    /\ e = 1
    /\ \A j \in 1..(m - 1) :
           sheets[sheet_configs[j]].is_filler => sheets[sheet_configs[j]].tile_entries = <<>>

\* x is the id of an entry made by create_tile_entries_for_unused
SynthesizedId(x) ==
    \E b \in DOMAIN tiles_new_dict :
        \E t \in DOMAIN tiles_new_dict[b].conf.tiles :
            /\ IsSynthesized(tiles_new_dict[b].conf.tiles[t])
            /\ tiles_new_dict[b].conf.tiles[t].id = Str(x)

\* the ids of the list are pairwise different
DistinctIds(entry) == Cardinality(EntryIds(entry)) = Len(IdList(entry.id))

\* C10: an id of a filler-sheet entry that a non-filler sheet has processed is
\* dropped from the entry without an error, with the filler-skip warning exactly
\* when obsolete_fillers is set; in a non-filler sheet every colliding id gets
\* exactly one duplicate-id error.
C10_DuplicateIdDiagnostics ==
    [][(ConvertingEntry /\ ValidEntry(RawEntry) /\ DistinctIds(RawEntry)) =>
          /\ FirstFillerEntry =>
                 \A x \in EntryIds(RawEntry) :
                     (Contains(processed_ids, x) /\ ~SynthesizedId(x)) =>
                         /\ x \notin ResultIds
                         /\ \A i \in DOMAIN NewDiags : NewDiags[i].level # "ERROR"
                                \/ NewDiags[i].msg_type # "ERR_DUPLICATE_ID"
                         /\ CountDiags(NewDiags, "WARN_FILLER_SKIP", x)
                                = IF obsolete_fillers THEN 1 ELSE 0
          /\ ~sheets[sheet_configs[m]].is_filler =>
                 \A x \in EntryIds(RawEntry) :
                     Contains(processed_ids, x) =>
                         CountDiags(NewDiags, "ERR_DUPLICATE_ID", x) = 1
      ]_vars

\* the configured sheets that are not the fallback sheet, main sheets first
NotFallback(j) == ~sheets[j].is_fallback
ConfiguredSheets == SelectSeq(sheet_configs, NotFallback)

\* the document has been written
DocWritten == output_conf.tag = "list"

\* C20: the written document's tiles-new list has exactly one block per
\* configured non-fallback sheet (a sheet without PNG files included), the
\* blocks of the main sheets before those of the filler sheets, each with its
\* own sheet's file name and [first_index, max_index], and after them exactly
\* one fallback block, last
C20_OneBlockPerSheet ==
    DocWritten =>
        /\ Len(DocBlocks) = Len(ConfiguredSheets)
        /\ \A p \in DOMAIN DocBlocks \cap DOMAIN ConfiguredSheets :
               LET sheet == sheets[ConfiguredSheets[p]]
               IN  /\ DocBlocks[p].file = sheet.name
                   /\ DocBlocks[p].range = <<sheet.first_index, sheet.max_index>>
        /\ output_conf.l[Len(output_conf.l)].file = fallback_name
        /\ output_conf.l[Len(output_conf.l)].range = <<>>

\* the ids that the valid entries of sheet i define as their only id, as loaded
SoleIds(i) ==
    {x.id.s : x \in {y \in Range(source_dir[i].tile_entries) :
                        ValidEntry(y) /\ y.id.tag = "str"}}

\* the filler sheets configured before sheet j that define id x
FillersBefore(j, x) ==
    {i \in 1..(j - 1) : sheets[i].is_filler /\ x \in SoleIds(i)}

\* the main sheets configured after sheet i that define id x
MainsAfter(i, x) ==
    {j \in (i + 1)..Len(sheets) :
        ~sheets[j].is_filler /\ ~sheets[j].is_fallback /\ x \in SoleIds(j)}

\* the step converts a valid entry with the single id x of sheet s
ConvertingSoleId ==
    ConvertingEntry /\ ValidEntry(RawEntry) /\ RawEntry.id.tag = "str"

\* the step reports id x as a duplicate at error level
DuplicateIdError(x) == CountDiags(NewDiags, "ERR_DUPLICATE_ID", x) > 0

C13_NoWriteAfterAbort ==
    [][/\ to_exit => written' \subseteq written
       /\ written \subseteq written'
      ]_vars

\* the finished events of a log
IsFinishedEvent(d) == d.msg_type = "FINISHED"
FinishedEvents(lg) == SelectSeq(lg, IsFinishedEvent)

\* the finished event of a cancelled run
AbortedEvent == Diag("INFO", "FINISHED", "Composing aborted.")

\* C14: when StopComposing, raised by a check_abort of Indexing, of Merging or
\* of a composing task, reaches run, the next step of the run ends it with
\* exactly one new record, the finished event "Composing aborted." at info
\* level (so nothing of warning, error or critical level), and a run ended
\* this way has emitted exactly one finished event, never "Composing done.".
C14_CancellationEndsWithAbortedEvent ==
    [][/\ pc = "stopped" => /\ pc' = "aborted"
                            /\ NewDiags = <<AbortedEvent>>
       /\ pc' = "aborted" => FinishedEvents(log') = <<AbortedEvent>>
      ]_vars

\* C14, witness: a run cancelled in a composing task has ended, a sheet image
\* written before the abort is in place
C14_Witness_CancelledInWorker ==
    /\ pc = "aborted"
    /\ raised = "StopComposing"
    /\ \E w \in DOMAIN work : work[w] = "raised"
    /\ written # {}

\* run has returned, or an exception has left it
RunEnded == pc \in {"done", "aborted", "escaped"}

\* C15: a run that has ended, normally, cancelled or after a ComposingException
\* of compose (no tileset.txt with a JSON key, an image a composing task cannot
\* load), has emitted exactly one finished event.
C15_EveryRunEmitsOneFinished ==
    RunEnded => Len(FinishedEvents(log)) = 1

\* a diagnostic of warning level or higher has been logged
SevereLogged ==
    \E i \in DOMAIN log : log[i].level \in Severe /\ log[i].via # "signal"

\* C16: with fail_fast, once a diagnostic of warning level or higher has been
\* logged in a run (the tileset was created) the abort flag is set, and the
\* run does not return with the finished event "Composing done.": when it
\* returns, it has taken the cancellation path. In every phase, in JSON-only
\* mode too.
C16_FailFastNeverDone ==
    (fail_fast /\ SevereLogged /\ pc # "uncreated") =>
        /\ to_exit
        /\ pc # "done"
        /\ \A i \in DOMAIN log : log[i] # Diag("INFO", "FINISHED", "Composing done.")

\* the finished event of a completed run
DoneEvent == Diag("INFO", "FINISHED", "Composing done.")

\* C18: in JSON-only mode no step of the run starts a composing task, loads an
\* image or writes a sheet image; once the document is written the run goes
\* on to its finished event without composing, and the completed run has
\* written the document and emitted exactly one finished event.
C18_JsonOnlySkipsImages ==
    [][only_json =>
          /\ work' = <<>>
          /\ written' = {}
          /\ \A j \in DOMAIN sheets' : sheets'[j].images_loaded = 0
          /\ pc = "written" => pc' \in {"written", "done"}
          /\ pc' = "done" => /\ output_conf'.tag = "list"
                              /\ FinishedEvents(log') = <<DoneEvent>>
      ]_vars

\* C18, witness: a JSON-only run over a sheet with PNG files has completed
C18_Witness_JsonOnlyDone ==
    /\ only_json
    /\ pc = "done"
    /\ DocWritten
    /\ \E j \in DOMAIN sheets : sheets[j].png_files # <<>>

\* the critical diagnostics of a log
IsCritical(d) == d.level = "CRITICAL"
Criticals(lg) == SelectSeq(lg, IsCritical)

\* C19: when the source directory or tile_info.json cannot be read, or no
\* tileset.txt with a JSON key exists, no document and no sheet image is
\* written, and once create_tileset or run has ended exactly one critical
\* diagnostic has been reported, the one carrying the failure message, logged
\* and sent as a signal.
C19_FatalInputOneCritical ==
    fault \in {"source", "properties"} =>
        /\ ~DocWritten
        /\ written = {}
        /\ pc \in {"uncreated", "escaped"} => Criticals(log) = <<CriticalReport>>

\* the second run of the process has written its document
SecondDocWritten == run = 2 /\ DocWritten

\* C12: a second run in the same process on the unchanged directory, with the
\* same flags and compose subset and with no_use_all (no auto-fill), writes the
\* document of the first run: the same blocks, entries and indices in the
\* same order.
C12_SecondRunSameDocument ==
    (SecondDocWritten /\ no_use_all /\ compose_subset = previous[1].compose_subset)
        => output_conf = previous[1].output_conf

\* C12, witness: the second run with the same flags has completed; the
\* document holds tile entries and sprites were registered
C12_Witness_SecondRunDone ==
    /\ run = 2
    /\ pc = "done"
    /\ no_use_all
    /\ compose_subset = previous[1].compose_subset
    /\ DocEntryPositions # {}
    /\ SpriteNames # {}

\* C17: whatever compose subset the second run on the unchanged directory
\* uses, its document, its sprite indices, its sheets' index ranges and its
\* processed ids are those of the first run, which composed all sheets.
C17_SubsetChangesNoIndex ==
    SecondDocWritten =>
        /\ output_conf = previous[1].output_conf
        /\ pngname_to_pngnum = previous[1].pngname_to_pngnum
        /\ Snapshot.ranges = previous[1].ranges
        /\ processed_ids = previous[1].processed_ids

\* C17, witness: the second run has completed with a compose subset that
\* leaves out a sheet with PNG files, other than the first run's subset
C17_Witness_OtherSubsetDone ==
    /\ run = 2
    /\ pc = "done"
    /\ compose_subset # {}
    /\ compose_subset # previous[1].compose_subset
    /\ \E j \in DOMAIN sheets :
           /\ ~InSubset(sheets[j].name)
           /\ sheets[j].png_files # <<>>
           /\ RowPadding(Len(sheets[j].png_files), sheets[j].sprites_across) > 0
    /\ DocEntryPositions # {}

\* the cells of the composed image of sheet i in row-major order: the null
\* image first in the first configured sheet, then the PNG files in the order
\* load_sheet_images loads them
SheetCells(i) ==
    (IF i = 1 THEN <<"null_image">> ELSE <<>>) \o sheets[i].png_files

\* the position in SheetCells(i) of the n-th PNG file of sheet i
CellOfPng(i, n) == IF i = 1 THEN n + 1 ELSE n

\* C21: the null image is cell 0 of the first configured sheet and a cell of
\* no other sheet, and in every indexed sheet the k-th PNG file in scan order,
\* the k-th image loaded, is the sprite registered with the index
\* first_index + k - 1, also in a sheet that holds PNG files whose basename was
\* registered before.
C21_IndexIsCellPosition ==
    \A i \in DOMAIN sheets :
        RangeAssigned(i) =>
            /\ (i = 1) <=> (SheetCells(i)[1] = "null_image")
            /\ \A n \in DOMAIN sheets[i].png_files :
                   /\ SheetCells(i)[CellOfPng(i, n)] = sheets[i].png_files[n]
                   /\ pngname_to_pngnum[sheets[i].png_files[n]]
                          = sheets[i].first_index + n - 1

\* C22: pngname_to_pngnum is injective in every state: two distinct basenames
\* never have the same index, and no PNG basename has the index 0 of the
\* null image.
C22_RegistryInjective ==
    /\ \A a, b \in DOMAIN pngname_to_pngnum :
           a # b => pngname_to_pngnum[a] # pngname_to_pngnum[b]
    /\ \A a \in SpriteNames : pngname_to_pngnum[a] # 0

\* C23: pngnum is 0 when the run starts and no step makes it smaller:
\* neither the registration of a PNG name nor the row padding at the end of a
\* sheet.
C23_PngnumNeverDecreases ==
    [][pngnum' >= pngnum]_vars

\* sheet i is a main sheet
IsMain(i) == ~sheets[i].is_filler /\ ~sheets[i].is_fallback

\* C24: after Indexing, whatever the order of the sheets in tile_info.json,
\* the index ranges lie in the order main, filler, fallback: every main
\* sheet's max_index is below every filler sheet's first_index, and every
\* filler sheet's max_index is below every fallback sheet's first_index.
C24_RangesMainFillerFallback ==
    IndexingDone =>
        \A i, j \in DOMAIN sheets :
            /\ (IsMain(i) /\ sheets[j].is_filler)
                   => sheets[i].max_index < sheets[j].first_index
            /\ (sheets[i].is_filler /\ sheets[j].is_fallback)
                   => sheets[i].max_index < sheets[j].first_index

\* the ids the valid tile entries of sheet i define, as loaded
RawIds(i) ==
    UNION {EntryIds(x) : x \in {y \in Range(source_dir[i].tile_entries) : ValidEntry(y)}}

\* the ids defined by the main sheets
MainRawIds == UNION {RawIds(i) : i \in {j \in DOMAIN sheets : IsMain(j)}}

\* C25: whatever the order of the sheets in tile_info.json, when a tile entry
\* of a filler sheet is converted every main sheet has been merged, and when
\* a tile entry of a main sheet is converted no filler sheet has been merged
\* yet: processed_ids holds only ids defined by main sheets, and every id of
\* the entry that is not yet processed stays in the converted entry. So an id
\* defined in a main and in a filler sheet is kept by the main sheet's entry.
C25_MainEntriesConvertedFirst ==
    [][ConvertingEntry =>
          LET sheet == sheets[sheet_configs[m]]
          IN  /\ sheet.is_filler =>
                    \A p \in (m + 1)..Len(sheet_configs) : ~IsMain(sheet_configs[p])
              /\ ~sheet.is_filler =>
                    /\ \A p \in 1..m : IsMain(sheet_configs[p])
                    /\ Range(processed_ids) \subseteq MainRawIds
                    /\ ValidEntry(RawEntry) =>
                           \A x \in EntryIds(RawEntry) :
                               ~Contains(processed_ids, x) => x \in ResultIds
      ]_vars

\* C25, witness: the document is written; a filler sheet is configured before
\* a main sheet, both define the same id, and the block of the main sheet
\* holds an entry with that id
C25_Witness_MainKeepsSharedId ==
    /\ DocWritten
    /\ \E i, j \in DOMAIN sheets :
           /\ i < j
           /\ sheets[i].is_filler
           /\ IsMain(j)
           /\ \E x \in RawIds(i) \cap RawIds(j) :
                  \E p \in DocEntryPositions :
                      /\ DocBlocks[p[1]].file = sheets[j].name
                      /\ x \in EntryIds(DocEntry(p))
                      /\ ~IsSynthesized(DocEntry(p))

\* every configured sheet has been indexed and every PNG name is registered
AllNamesRegistered ==
    /\ Len(sheets) = Len(info)
    /\ \A i \in DOMAIN sheets : Range(sheets[i].png_files) \subseteq DOMAIN pngname_to_pngnum

\* C26: when a tile entry is converted, the PNG names of every configured
\* sheet are registered, and a layer that names a registered sprite, of the
\* entry's own sheet or of a sheet configured later, is converted to that
\* sprite's index.
C26_ConversionAfterAllRegistered ==
    [][(ConvertingEntry /\ ValidEntry(RawEntry)) =>
          /\ AllNamesRegistered
          /\ \A key \in {"fg", "bg"} :
                 (RawEntry[key].tag = "str" /\ RawEntry[key].s \in SpriteNames)
                     => ConvertedEntry[key] = Num(pngname_to_pngnum[RawEntry[key].s])
      ]_vars

\* some sprite image has been loaded
ImageLoaded == \E j \in DOMAIN sheets : sheets[j].images_loaded > 0

\* C27: in every state of a run in which a composing task exists, a sprite
\* image has been loaded or a sheet image has been written, the document has
\* been written; so a run cancelled during Composing leaves the document.
C27_DocumentBeforeImages ==
    (work # <<>> \/ ImageLoaded \/ written # {}) => DocWritten

\* C27, witness: a run cancelled during Composing has ended after it loaded
\* an image, and its document is written
C27_Witness_CancelledAfterLoad ==
    /\ pc = "aborted"
    /\ to_exit
    /\ ImageLoaded
    /\ \E w \in DOMAIN work : work[w] = "raised"
    /\ DocWritten

\* an id was found in processed_ids and rejected, whatever the sheet's type
RejectedIds ==
    {log[i].arg : i \in {j \in DOMAIN log :
                            log[j].msg_type \in {"ERR_DUPLICATE_ID", "WARN_FILLER_SKIP"}}}

\* C28: processed_ids never holds the same id twice, after any sequence of
\* conversions of top-level and nested entries and of auto-fill insertions.
C28_ProcessedIdsDistinct ==
    \A i, j \in DOMAIN processed_ids : i # j => processed_ids[i] # processed_ids[j]

\* a nested id was recorded, a repeated nested id was rejected, and the
\* auto-fill inserted the id of an unreferenced sprite
C28_Witness_NestedAndAutoFill ==
    /\ DocWritten
    /\ Contains(processed_ids, "a_a")
    /\ "a_a" \in RejectedIds
    /\ \E p \in DocEntryPositions :
           IsSynthesized(DocEntry(p)) /\ EntryIds(DocEntry(p)) \subseteq Range(processed_ids)

\* the full ids under which the ids of a nested entry of the entry being
\* converted are recorded
NestedFullIds(nested) == {NestedPrefix(IdList(RawEntry.id)) \o x : x \in EntryIds(nested)}

\* C29: a nested additional entry that is invalid (no id, or neither fg nor
\* bg) or whose ids all collide is discarded: every entry left in the parent's
\* converted additional list has an id and a layer, its ids were recorded by
\* this conversion, and no two of the entries left share an id.
C29_InvalidNestedDiscarded ==
    [][(ConvertingEntry /\ ValidEntry(RawEntry)) =>
          LET out == ConvertedEntry.additional_tiles
          IN  /\ \A i \in DOMAIN out :
                     /\ EntryIds(out[i]) # {}
                     /\ out[i].fg # None \/ out[i].bg # None
                     /\ NestedFullIds(out[i]) \subseteq
                            Range(processed_ids') \ Range(processed_ids)
              /\ \A i, j \in DOMAIN out :
                     i # j => EntryIds(out[i]) \cap EntryIds(out[j]) = {} ]_vars

\* the ids convert examines for an entry, in order, each written as
\* '<first id of the direct parent>_<id>' (a top-level id as it is): those of
\* the nested entries first, then the entry's own
RECURSIVE ExaminedIds(_, _)
RECURSIVE ExaminedNestedIds(_, _, _)
ExaminedNestedIds(additional, i, parent) ==
    IF i > Len(additional) THEN <<>>
    ELSE ExaminedIds(additional[i], parent \o "_") \o ExaminedNestedIds(additional, i + 1, parent)

ExaminedIds(entry, prefix) ==
    IF ~ValidEntry(entry) THEN <<>>
    ELSE ExaminedNestedIds(entry.additional_tiles, 1, IdList(entry.id)[1].s)
             \o [i \in DOMAIN IdList(entry.id) |-> prefix \o IdList(entry.id)[i].s]

Occurrences(s, x) == Cardinality({i \in DOMAIN s : s[i] = x})

\* the duplicate reports of the step for one full id (this tileset reports a
\* duplicate in a filler sheet too)
Rejections(x) ==
    CountDiags(NewDiags, "ERR_DUPLICATE_ID", x) + CountDiags(NewDiags, "WARN_FILLER_SKIP", x)

\* C30: nested ids are checked and recorded in processed_ids as
\* '<first id of the direct parent>_<id>': the conversion of an entry records
\* exactly the ids so written that were not recorded yet, and reports an id
\* as duplicate once for each further time it is so written; a nested id
\* equal to a top-level id or to a nested id under a parent with another
\* first id is therefore no duplicate, the same nested id twice under the
\* same parent is one.
C30_NestedIdsKeyedByParent ==
    [][ConvertingEntry =>
          LET ids == ExaminedIds(RawEntry, "")
          IN  /\ Range(processed_ids') = Range(processed_ids) \cup Range(ids)
              /\ \A x \in Range(ids) :
                     Rejections(x) = Occurrences(ids, x)
                                       - (IF Contains(processed_ids, x) THEN 0 ELSE 1)
              /\ \A x \in Range(processed_ids) \ Range(ids) : Rejections(x) = 0 ]_vars

\* id a was recorded top-level, nested under a and nested under b; only the
\* second a nested under a was rejected
C30_Witness_SameIdThreePlaces ==
    /\ {"a", "b", "a_a", "b_a"} \subseteq Range(processed_ids)
    /\ RejectedIds = {"a_a"}

\* the empty-entry warnings of the step
EmptyEntryWarnings ==
    Cardinality({i \in DOMAIN NewDiags : NewDiags[i].msg_type = "WARN_EMPTY_ENTRY"})

\* C31: convert on a top-level entry without id, or with neither fg nor bg,
\* returns None (nothing is appended to the sheet's converted entries), emits
\* exactly one empty-entry warning and nothing else, and leaves processed_ids,
\* pngname_to_pngnum and both unreferenced lists unchanged; every entry of
\* the written document has an id and a layer.
C31_EmptyEntryDropped ==
    /\ [][(ConvertingEntry /\ ~ValidEntry(RawEntry)) =>
             /\ ~Returned
             /\ sheet_entries' = sheet_entries
             /\ EmptyEntryWarnings = 1
             /\ Len(NewDiags) = 1
             /\ UNCHANGED <<processed_ids, pngname_to_pngnum, unreferenced_pngnames>> ]_vars
    /\ [](DocWritten => \A p \in DocEntryPositions :
             /\ EntryIds(DocEntry(p)) # {}
             /\ EntryLayer(DocEntry(p), "fg") # None \/ EntryLayer(DocEntry(p), "bg") # None)

\* the document was written for a tileset with an entry without id and an
\* entry without layers, next to a sprite that stayed unreferenced
C31_Witness_EmptyEntriesSkipped ==
    /\ DocWritten
    /\ \E x, y \in UserEntries :
           /\ ~Truthy(x.id)
           /\ Truthy(y.id) /\ ~Truthy(y.fg) /\ ~Truthy(y.bg)
    /\ CountDiags(log, "WARN_EMPTY_ENTRY", "") = 2
    /\ SpriteNames # {}

\* compose is in its Merging loop or between the loop and write_to_json
Merging == pc \in {"merge", "convert"}

\* C32: the abort flag is checked at every tile-entry boundary during
\* Merging: once the flag is set no further tile entry is converted and the
\* merged document is not written.
C32_AbortStopsMerging ==
    [][(to_exit /\ Merging) =>
          /\ ~(ConvertingEntry /\ e' = e + 1)
          /\ output_conf' = output_conf ]_vars

\* the index range of every sheet
SheetRanges == [i \in DOMAIN sheets |-> <<sheets[i].first_index, sheets[i].max_index>>]

\* C33: during Composing no task modifies pngname_to_pngnum, pngnum,
\* processed_ids, the unreferenced lists or a sheet's index range, and the
\* sprite list of a sheet changes only in a step of the task that composes
\* this sheet, under every interleaving of the tasks.
C33_WorkersWriteOwnSheetOnly ==
    [][pc = "composing" =>
          /\ UNCHANGED <<pngname_to_pngnum, pngnum, processed_ids, unreferenced_pngnames>>
          /\ SheetRanges' = SheetRanges
          /\ \A j \in DOMAIN sheets :
                 sheets'[j] # sheets[j] =>
                     /\ sheets'[j] = [sheets[j] EXCEPT !.images_loaded = @ + 1]
                     /\ \E w \in DOMAIN work :
                            /\ sheet_configs[w] = j
                            /\ work[w] = "load"
                            /\ \A v \in DOMAIN work \ {w} : work'[v] = work[v] ]_vars

\* two tasks have loaded images of two sheets and neither has ended
C33_Witness_TwoWorkersLoading ==
    /\ pc = "composing"
    /\ \E v, w \in DOMAIN work :
           /\ v # w
           /\ work[v] = "check" /\ work[w] = "check"
           /\ sheets[sheet_configs[v]].images_loaded > 0
           /\ sheets[sheet_configs[w]].images_loaded > 0

\* compose takes the step that handles unreferenced sprites: at the first
\* filler sheet of the Merging loop, or after the loop
HandlingUnreferenced ==
    /\ pc = "merge"
    /\ pc' # pc
    /\ m <= Len(sheet_configs) =>
           /\ ~to_exit
           /\ sheets[sheet_configs[m]].is_filler
           /\ ~main_finished

\* the sprites the step hands to handle_unreferenced_sprites, list by list
HandledSprites ==
    IF m <= Len(sheet_configs)
    THEN unreferenced_pngnames["main"]
    ELSE (IF main_finished THEN <<>> ELSE unreferenced_pngnames["main"])
             \o unreferenced_pngnames["filler"]

\* the diagnostics of the step about the unreferenced sprite x
UnreferencedReports(x) ==
    {i \in DOMAIN NewDiags : /\ NewDiags[i].arg = x
                              /\ NewDiags[i].msg_type \in {"ERR_NOT_USED", "WARN_SPRITE_UNREF"}}

\* the diagnostic of the step about x is the one the claim prescribes
ReportedAsPrescribed(x) ==
    /\ Cardinality(UnreferencedReports(x)) = 1
    /\ \A i \in UnreferencedReports(x) :
           NewDiags[i].msg_type =
               IF Contains(processed_ids, x) THEN "ERR_NOT_USED" ELSE "WARN_SPRITE_UNREF"

\* C34 as stated: with auto-fill disabled the handling of the unreferenced
\* sprites adds no entry to the document and does not extend processed_ids,
\* and each sprite still unreferenced yields exactly one diagnostic, an error
\* if its basename is a processed id, otherwise a warning.
C34_EachUnreferencedReportedOnce ==
    [][(no_use_all /\ HandlingUnreferenced) =>
          /\ processed_ids' = processed_ids
          /\ tiles_new_dict' = tiles_new_dict
          /\ \A x \in Range(HandledSprites) : ReportedAsPrescribed(x) ]_vars

\* C34: with auto-fill disabled the handling of the unreferenced sprites adds
\* no entry to the document and does not extend processed_ids; each sprite
\* still unreferenced yields at most one diagnostic, and exactly one, an
\* error if its basename is a processed id, otherwise a warning, unless the
\* abort flag is set when the handling ends.
C34_UnreferencedReportedUnlessAborted ==
    [][(no_use_all /\ HandlingUnreferenced) =>
          /\ processed_ids' = processed_ids
          /\ tiles_new_dict' = tiles_new_dict
          /\ \A x \in Range(HandledSprites) :
                 /\ Cardinality(UnreferencedReports(x)) <= 1
                 /\ ~to_exit' => ReportedAsPrescribed(x) ]_vars

\* a run with auto-fill disabled has ended after reporting one unreferenced
\* sprite as an error and another as a warning
C34_Witness_ErrorAndWarning ==
    /\ no_use_all
    /\ pc = "done"
    /\ \E i, j \in DOMAIN log :
           /\ log[i].msg_type = "ERR_NOT_USED"
           /\ log[j].msg_type = "WARN_SPRITE_UNREF"

\* the directories a collected file lies in or below
DirsAbove(file) == {SubSeq(file, 1, n) : n \in 0..(Len(file) - 1)}

CollectedFiles == Range(walk.json_files) \cup Range(walk.png_files)

\* C35: scanning a sheet never collects a JSON or PNG file that lies in or
\* below a path of the sheet's exclusion list, or in or below a directory
\* that contains the ignore-marker file, the sheet's root source directory
\* included.
C35_NoFileFromPrunedDirectory ==
    walk.pc # "none" =>
        \A file \in CollectedFiles :
            DirsAbove(file) \cap (walk.excluded \cup walk.marked) = {}

\* C36: the merged document of a run depends only on that run's input tree
\* and flags: a run on the tile_info.json the first run of the process had
\* writes the document the first run wrote, whatever was composed in
\* between; the fallback block carries nothing over from an earlier run.
C36_DocumentOfRunOnly ==
    (pc = "done" /\ previous # <<>> /\ previous[1].info = info)
        => output_conf = previous[1].output_conf

\* C37: pressing Abort while a run is in progress, or closing the window
\* while a runner exists, sets the abort flag of the running tileset.
C37_AbortControlSetsFlag ==
    [][(/\ window' # window
        /\ window'.event \in {"abort_compose", "closeEvent"}
        /\ window.runner
        /\ Composing) => to_exit' ]_vars

\* C38: from start_compose until the finished event of that run has been
\* handled (while the window has a runner) the controls stay disabled and
\* Abort is the only enabled control; otherwise the controls are enabled
\* and Abort is disabled.
C38_ControlsDisabledDuringRun ==
    window.event # "none" =>
        IF window.runner
        THEN ~window.controls /\ window.btn_abort
        ELSE window.controls /\ ~window.btn_abort

\* the "Abort requested." status messages of the run
AbortStatuses == SelectSeq(log, LAMBDA d : d = Diag("INFO", "STATUS_MESSAGE", "Abort requested."))

\* C39: within one run "Abort requested." is emitted at most once, and the
\* abort flag once set stays set, also when requests come concurrently from
\* the caller thread and from Composing workers through the handler.
C39_AbortRequestedOnce ==
    /\ [](Len(AbortStatuses) <= 1)
    /\ [][to_exit => to_exit']_vars

====
